---------------------------- MODULE Spec2Model ----------------------------
(***************************************************************************)
(* Verification model of pyalgotrade (tibkiss fork).                       *)
(*                                                                         *)
(* Part I   : the Interactive Brokers Broker and the order-related part of *)
(*            the IB Connection (ibbroker.py, ibconnection.py).            *)
(* Part II  : the PositionTracker accounting primitive.                    *)
(* Part III : the backtesting broker and the bar dispatch loop.            *)
(* Part IV  : FlatRateCommission as a function, and the account values of  *)
(*            the IB Connection behind Broker.getCash / setCash.           *)
(* Part V   : the IB LiveFeed (ibfeed.py).                                 *)
(* Part VI  : the ticker-id requests of the IB Connection: realtime bars,  *)
(*            market data, historical data, market scanner.                *)
(* Part VII : BoundedOrderedDict and LRUCache (utils/cache.py).            *)
(* Part VIII: Connection.getCash and the updateAccountValue callback as    *)
(*            two threads sharing Connection.__accUpdateLock.              *)
(* Part IX  : the delivery of the broker's order-updated event to its      *)
(*            subscribers by the orderStatus callback.                     *)
(* Part X   : Connection.requestHistoricalData and the historicalData and  *)
(*            error callbacks as two threads.                              *)
(* Part XI  : Connection.requestMarketScanner and the scannerData and      *)
(*            scannerDataEnd callbacks as two threads.                     *)
(*                                                                         *)
(* Money is kept in integers.  In Part I one unit is 1/100000 dollar in    *)
(* commissions; prices are whole dollars.                                  *)
(***************************************************************************)
EXTENDS Integers, Naturals, Sequences, FiniteSets, TLC

VARIABLES
    ibOrders,       \* the ibbroker.Order objects created so far (index = identity)
    brokerOrders,   \* Broker.__orders : orderId -> order
    connOrderId,    \* Connection.__orderId
    connOrderIds,   \* Connection.__orderIds : orderId -> instrument
    connected,      \* Connection.__connected
    twsRequests,    \* the placeOrder / cancelOrder requests sent to TWS, in order
    orderEvents,    \* emissions of the broker's order-updated event
    setExecutedCalls, \* per order, the number of Order.setExecuted calls
    lastCall,       \* the operation performed by the last step and its outcome
    posTracker,     \* a returns.PositionTracker: shares, cost, cash, commissions
    ptLog,          \* the calls made on the PositionTracker, in order
    btConfig,       \* backtesting broker: commission per fill, adjusted-values mode
    btCash,         \* backtesting broker: cash
    btShares,       \* backtesting broker: shares held of the instrument
    btOrders,       \* the orders created on the backtesting broker (index = identity)
    btActive,       \* the broker's active orders, in order of submission
    btBars,         \* the Bars of the current dispatch step (<< >> before the first)
    btBarNo,        \* number of Bars the feed has produced (the current dateTime)
    btPhase,        \* position of the dispatch loop within the step
    btEvents,       \* emissions of the broker's order-updated event
    btError,        \* the error raised by the last broker call ("" when none)
    commissionCall, \* the last FlatRateCommission.calculate call and its result
    accountValues,  \* Connection.__accountValues : <<account, currency, key>> -> value
    accountUpdatesSubscribed, \* Connection.__accountUpdatesSubscribed
    accountCall,    \* the last cash call on the Broker and its outcome
    feedCurrentBars,     \* LiveFeed.__currentBars : instrument -> bar (its dateTime)
    feedCurrentDatetime, \* LiveFeed.__currentDatetime
    feedQueue,           \* LiveFeed.__queue : the bar-sets waiting to be dispatched
    feedRunning,         \* LiveFeed.__running
    feedPrevDateTime,    \* the attribute _LiveFeed__prevDateTime
    feedEmitted,         \* dateTimes of the bar-sets emitted to the new-bars subscribers
    feedResult,          \* outcome of the last LiveFeed.dispatch
    feedSeries,          \* the feed's data series : instrument -> dateTimes appended
    feedHandlerSaw,      \* last value of each series, as the last new-bars handler saw it
    feedStopDispatching,    \* the attribute _LiveFeed__stopDispatching
    barFeedStopDispatching, \* what the base class's stopDispatching() reports
    feedReceived,        \* the bars onRealtimeBar received, in order of arrival
    feedQueued,          \* every bar-set put on LiveFeed.__queue, in order
    feedFetched,         \* every bar-set fetchNextBars took off the queue, in order
    feedPc,              \* position of the thread that called LiveFeed.dispatch
    tickerId,               \* Connection.__tickerId
    realtimeBarIDs,         \* Connection.__realtimeBarIDs : instrument -> tickerId
    realtimeBarEvents,      \* Connection.__realtimeBarEvents : instrument -> Event
    realtimeBarListeners,   \* Connection.__realtimeBarListeners : instrument -> count
    marketDataTickerIDs,    \* Connection.__marketDataTickerIDs : key -> instrument
    marketDataEvents,       \* Connection.__marketDataEvents : instrument -> Event
    marketDataListeners,    \* Connection.__marketDataListeners : instrument -> count
    marketData,             \* Connection.__marketData : instrument -> RTVolume ticks
    tickerRequests,         \* the requests carrying a ticker id sent to TWS, in order
    blockedRequest,         \* the blocking request the caller is waiting in, if any
    delivered,              \* the handler calls made by the last callback
    subscribedRealtime,     \* the <<instrument, handler>> subscribed with
                            \* subscribeRealtimeBars and not unsubscribed since
    eventOnHeld,            \* what Event.subscribe did with a handler the list held,
                            \* once a call has shown it ("" before)
    eventOnAbsent,          \* what Event.unsubscribe did with a handler the list did
                            \* not hold, once a call has shown it ("" before)
    subscribedMarketData,   \* the same for market data
    connCall,               \* the last Connection operation and its outcome
    bodSize,             \* BoundedOrderedDict.size
    bodData,             \* the entries of the BoundedOrderedDict, oldest first
    bodCall,             \* the last operation on the BoundedOrderedDict
    lruSize,             \* LRUCache.size
    lruData,             \* LRUCache.data, an OrderedDict: its entries in order
    lruUsed,             \* the keys read or written, from least to most recently
    lruCall,             \* the last operation on the LRUCache and its result
    gcPc,                \* position of the thread that called Connection.getCash
    gcCash,              \* the local variable cash of Connection.getCash
    accLock,             \* holder of Connection.__accUpdateLock
    cbPc,                \* position of the TWS thread inside updateAccountValue
    cbArgs,              \* the arguments of the updateAccountValue call in progress
    gcUpdates,           \* updateAccountValue calls TWS made on this Connection
    oeHandlers,          \* handlers of the broker's order-updated event, in order
    oeEmit,              \* the emission of the order-updated event in progress
    oeLog,               \* per emission: the handlers subscribed and those called
    hdPc,                \* position of the thread inside requestHistoricalData
    hdTicker,            \* the local variable tickerId of requestHistoricalData
    hdInstrument,        \* the instrument of the request in progress
    hdBuffer,            \* Connection.__historicalDataBuffer
    hdReceived,          \* Connection.__historicalDataReceived
    connError,           \* Connection.__error : the dict bound to the attribute
    errorPending,        \* the errorCode an error() callback has still to store
    twsAnswer,           \* how far TWS is with its answer to the request
    hdDelivered,         \* the bars historicalData delivered since the request
    hdReported,          \* error code TWS reported for the request, not yet inspected
    hdMessages,          \* messages with ticker id -1 delivered during the request
    hdCall,              \* what the last requestHistoricalData call returned, if it has
    msPc,                \* position of the thread inside requestMarketScanner
    msTicker,            \* the local variable tickerId of requestMarketScanner
    msBuffer,            \* Connection.__marketScannerBuffer
    twsScan,             \* how far TWS is with the rows of the scan
    msRows,              \* the rows scannerData delivered for the request
    msCall,              \* the last return of requestMarketScanner
    lcConnected,         \* Connection.__connected, from the Connection's construction on
    lcSubscribed,        \* Connection.__accountUpdatesSubscribed, likewise
    lcWire,              \* calls made on the EClientSocket and 502 errors it reported, in order
    lcCall,              \* the last call on the Connection and how it ended
    lcWaiting,           \* the request sent by a call that waits for its answer
    lcListeners,         \* __realtimeBarListeners / __marketDataListeners of the instrument
    tkBuffer,            \* Connection.__marketData[instr] : the RTVolume trades buffered
    tkBar,               \* the last bar __emitTicks emitted for the instrument
    tkWindow,            \* the trades that were buffered when that bar was built
    tkCall               \* what the last tick did

ibVars == <<ibOrders, brokerOrders, connOrderId, connOrderIds, connected,
            twsRequests, orderEvents, setExecutedCalls, lastCall>>

ptVars == <<posTracker, ptLog>>

btVars == <<btConfig, btCash, btShares, btOrders, btActive, btBars, btBarNo,
            btPhase, btEvents, btError>>

cmVars == <<commissionCall>>

acVars == <<accountValues, accountUpdatesSubscribed, accountCall>>

lfVars == <<feedCurrentBars, feedCurrentDatetime, feedQueue, feedRunning,
            feedPrevDateTime, feedEmitted, feedResult, feedSeries,
            feedHandlerSaw, feedStopDispatching, barFeedStopDispatching,
            feedReceived, feedQueued, feedFetched, feedPc>>

eventVars == <<eventOnHeld, eventOnAbsent>>

cnVars == <<tickerId, realtimeBarIDs, realtimeBarEvents, realtimeBarListeners,
            marketDataTickerIDs, marketDataEvents, marketDataListeners,
            marketData, tickerRequests, blockedRequest, delivered,
            subscribedRealtime, eventVars, subscribedMarketData,
            connCall>>

chVars == <<bodSize, bodData, bodCall, lruSize, lruData, lruUsed, lruCall>>

gcVars == <<gcPc, gcCash, accLock, cbPc, cbArgs, gcUpdates>>

oeVars == <<oeHandlers, oeEmit, oeLog>>

hdVars == <<hdPc, hdTicker, hdInstrument, hdBuffer, hdReceived, connError,
            errorPending, twsAnswer, hdDelivered, hdReported, hdMessages, hdCall>>

msVars == <<msPc, msTicker, msBuffer, twsScan, msRows, msCall>>

lcVars == <<lcConnected, lcSubscribed, lcWire, lcCall, lcWaiting, lcListeners>>

tkVars == <<tkBuffer, tkBar, tkWindow, tkCall>>

\* The state of Parts XII and later.
ltVars == <<lcVars, tkVars>>

\* The state of Parts VII and later.
xtVars == <<chVars, gcVars, oeVars, hdVars, msVars, ltVars>>

\* The state of Parts IV and later.
moreVars == <<cmVars, acVars, lfVars, cnVars, xtVars>>

vars == <<ibVars, ptVars, btVars, moreVars>>

-----------------------------------------------------------------------------
(* Bounds *)

MaxOrders == 1        \* order objects the strategy creates
MaxRequests == 2      \* placeOrder / cancelOrder requests sent to TWS
MaxEvents == 2        \* emissions of the order-updated event that are recorded
MaxTrackerOps == 2    \* calls made on the PositionTracker
MaxBtOrders == 1      \* orders created on the backtesting broker
MaxCashOrders == 2    \* the same, in the runs that follow the cash over several fills
MaxBars == 3          \* Bars the feed produces before it is exhausted
MaxQueue == 2         \* bar-sets waiting in the LiveFeed's queue
MaxReceived == 4      \* realtime bars the LiveFeed receives
MaxWire == 5          \* calls and errors recorded on the Connection's socket
MaxTrades == 4        \* RTVolume trades in the buffer of an instrument
MaxTickerRequests == 3 \* requests carrying a ticker id sent to TWS
MaxListeners == 2     \* value of a listener counter of the Connection
MaxTicks == 3         \* RTVolume ticks buffered by the Connection
MaxCacheSize == 2     \* size given to a BoundedOrderedDict or an LRUCache
MaxUpdates == 2       \* updateAccountValue callbacks TWS makes on one Connection
MaxHistBars == 2      \* bars TWS delivers in answer to one historical data request
MaxMessages == 1      \* messages with ticker id -1 TWS delivers during one request
MaxScans == 2         \* market scanner requests made on the Connection
MaxScanRows == 2      \* rows TWS delivers for one market scanner request

-----------------------------------------------------------------------------
(* Part I : values *)

NoneId == -1          \* Order.__orderId = None

OrderTypes == {"MARKET", "LIMIT", "STOP", "STOP_LIMIT"}
OrderActions == {"BUY", "SELL", "SELL_SHORT", "BUY_TO_COVER"}
OrderStates == {"ACCEPTED", "CANCELED", "FILLED"}

\* The status values TWS documents for orderStatus().
TwsStatuses == {"PendingSubmit", "PendingCancel", "PreSubmitted", "Submitted",
                "Cancelled", "Filled", "Inactive"}

Instrument == "XMX"

\* OrderExecutionInfo is absent (None) until the order is executed: the
\* executionInfo field is a sequence holding zero or one record.
NoExecutionInfo == << >>

\* Order ids TWS may name in a callback: those the connection can have
\* allocated within the bounds, and one more.
TwsOrderIds == 0 .. MaxOrders

-----------------------------------------------------------------------------
(* Part I : broker.Order / ibbroker.Order objects *)

\* ibbroker.Order.__init__ on top of broker.Order.__init__: a new order is
\* ACCEPTED, has no execution info and no order id.
NewOrder(type, action, limitPrice, stopPrice, quantity, goodTillCanceled) ==
    [type |-> type, action |-> action, instrument |-> Instrument,
     quantity |-> quantity, limitPrice |-> limitPrice, stopPrice |-> stopPrice,
     goodTillCanceled |-> goodTillCanceled,
     state |-> "ACCEPTED", executionInfo |-> NoExecutionInfo,
     orderId |-> NoneId]

\* broker.Order.setState: a plain setter.
setState(order, state) == [order EXCEPT !.state = state]

\* broker.Order.setExecuted: stores the execution info and marks the order FILLED.
setExecuted(order, orderExecutionInfo) ==
    [order EXCEPT !.executionInfo = <<orderExecutionInfo>>, !.state = "FILLED"]

\* broker.Order.isFilled
isFilled(order) == order.state = "FILLED"

setOrderId(order, orderId) == [order EXCEPT !.orderId = orderId]

-----------------------------------------------------------------------------
(* Part I : FlatRateCommission.calculate, in units of 1/100000 dollar *)

Max2(a, b) == IF a >= b THEN a ELSE b
Min2(a, b) == IF a <= b THEN a ELSE b

\* Mutant of FlatRateCommission: the rate above 500 shares is not reduced.
FlatRateCommission_SingleTier(price, quantity) ==
    LET minPerOrder == 130000
        maxPerOrder == (price * quantity) * 500
        flatRate == 1300 * quantity
    IN  Min2(maxPerOrder, Max2(minPerOrder, flatRate))

\* Mutant of FlatRateCommission: the minimum per order is not applied.
FlatRateCommission_NoFloor(price, quantity) ==
    LET maxPerOrder == (price * quantity) * 500
        flatRate == IF quantity <= 500
                    THEN 1300 * quantity
                    ELSE 1300 * 500 + 800 * (quantity - 500)
    IN  Min2(maxPerOrder, flatRate)

FlatRateCommission(price, quantity) ==
    LET minPerOrder == 130000
        maxPerOrder == (price * quantity) * 500
        flatRate == IF quantity <= 500
                    THEN 1300 * quantity
                    ELSE 1300 * 500 + 800 * (quantity - 500)
    IN  Min2(maxPerOrder, Max2(minPerOrder, flatRate))

-----------------------------------------------------------------------------
(* Part I : Connection (order part) *)

\* Connection.createOrder with orderId=None takes the id from
\* __getNextOrderId; an explicit id is used as given.
CreateOrderId(orderId) == IF orderId = NoneId THEN connOrderId ELSE orderId

\* Connection.__getNextOrderId is only called when no id was given.
NextOrderIdAfter(orderId) ==
    IF orderId = NoneId THEN connOrderId + 1 ELSE connOrderId

-----------------------------------------------------------------------------
(* Part I : Broker.placeOrder helpers *)

\* The side sent to TWS.  BUY_TO_COVER matches none of the branches of
\* placeOrder, so the local `action` stays unbound ("UNBOUND") and the later
\* read of it raises.
TwsAction(act) ==
    CASE act = "BUY" -> "BUY"
      [] act = "SELL" -> "SELL"
      [] act = "SELL_SHORT" -> "SELL"
      [] OTHER -> "UNBOUND"

TwsOrderType(ot) ==
    CASE ot = "MARKET" -> "MKT"
      [] ot = "LIMIT" -> "LMT"
      [] ot = "STOP" -> "STP"
      [] ot = "STOP_LIMIT" -> "STP LMT"

TwsLmtPrice(order) ==
    IF order.type \in {"LIMIT", "STOP_LIMIT"} THEN order.limitPrice ELSE 0

TwsAuxPrice(order) ==
    IF order.type \in {"STOP", "STOP_LIMIT"} THEN order.stopPrice ELSE 0

TwsTif(order) == IF order.goodTillCanceled THEN "GTC" ELSE "DAY"

\* Mutant of PlaceOrderRaises: the check of the order's state is missing.
PlaceOrderRaises_NoStateCheck(order) ==
    TwsAction(order.action) = "UNBOUND"

\* placeOrder raises before anything is sent to TWS.
PlaceOrderRaises(order) ==
    \/ order.state # "ACCEPTED"
    \/ TwsAction(order.action) = "UNBOUND"

\* Mutant of CancelOrderRaises: the isFilled() check is missing.
CancelOrderRaises_NoFilledCheck(order) ==
    order.orderId = NoneId

\* cancelOrder raises before anything is sent to TWS.
CancelOrderRaises(order) ==
    \/ isFilled(order)
    \/ order.orderId = NoneId

-----------------------------------------------------------------------------
(* Part I : state after construction *)

Call(op, order, raised) == [op |-> op, order |-> order, raised |-> raised]

InitIB ==
    /\ ibOrders = << >>
    /\ brokerOrders = << >>          \* a function with empty domain
    /\ connOrderId = 0
    /\ connOrderIds = << >>
    /\ connected = TRUE              \* Broker.__init__ calls getCash/subscribeOrderUpdates
    /\ twsRequests = << >>
    /\ orderEvents = << >>
    /\ setExecutedCalls = << >>
    /\ lastCall = Call("init", 0, FALSE)

\* dict[key] = value
Put(map, key, value) ==
    [k \in DOMAIN map \cup {key} |-> IF k = key THEN value ELSE map[k]]

-----------------------------------------------------------------------------
(* Part I : operations *)

\* Broker.createMarketOrder / createLimitOrder / createStopOrder /
\* createStopLimitOrder: builds the order object, nothing is sent.
CreateOrder(type, action, goodTillCanceled) ==
    /\ Len(ibOrders) < MaxOrders
    /\ ibOrders' = Append(ibOrders,
            NewOrder(type, action,
                     IF type \in {"LIMIT", "STOP_LIMIT"} THEN 4 ELSE 0,
                     IF type \in {"STOP", "STOP_LIMIT"} THEN 5 ELSE 0,
                     12, goodTillCanceled))
    /\ setExecutedCalls' = Append(setExecutedCalls, 0)
    /\ lastCall' = Call("createOrder", Len(ibOrders) + 1, FALSE)
    /\ UNCHANGED <<brokerOrders, connOrderId, connOrderIds, connected,
                   twsRequests, orderEvents>>

\* Broker.placeOrder(order)
PlaceOrder(o) ==
    LET order == ibOrders[o]
        orderId_ == CreateOrderId(order.orderId)
    IN
    /\ o \in DOMAIN ibOrders
    /\ IF PlaceOrderRaises(order)
       THEN /\ lastCall' = Call("placeOrder", o, TRUE)
            /\ UNCHANGED <<ibOrders, brokerOrders, connOrderId, connOrderIds,
                           connected, twsRequests, orderEvents,
                           setExecutedCalls>>
       ELSE /\ Len(twsRequests) < MaxRequests
            \* Connection.createOrder
            /\ connected' = TRUE
            /\ connOrderId' = NextOrderIdAfter(order.orderId)
            /\ connOrderIds' = Put(connOrderIds, orderId_, order.instrument)
            /\ twsRequests' = Append(twsRequests,
                    [req |-> "placeOrder", orderId |-> orderId_, symbol |-> order.instrument,
                     action |-> TwsAction(order.action),
                     orderType |-> TwsOrderType(order.type),
                     lmtPrice |-> TwsLmtPrice(order),
                     auxPrice |-> TwsAuxPrice(order),
                     tif |-> TwsTif(order),
                     totalQuantity |-> order.quantity, minQuantity |-> 0,
                     allocated |-> (order.orderId = NoneId)])
            \* back in Broker.placeOrder
            /\ ibOrders' = [ibOrders EXCEPT ![o] = setOrderId(order, orderId_)]
            /\ brokerOrders' = Put(brokerOrders, orderId_, o)
            /\ lastCall' = Call("placeOrder", o, FALSE)
            /\ UNCHANGED <<orderEvents, setExecutedCalls>>

\* Broker.cancelOrder(order)
CancelOrder(o) ==
    LET order == ibOrders[o] IN
    /\ o \in DOMAIN ibOrders
    /\ IF CancelOrderRaises(order)
       THEN /\ lastCall' = Call("cancelOrder", o, TRUE)
            /\ UNCHANGED <<ibOrders, brokerOrders, connOrderId, connOrderIds,
                           connected, twsRequests, orderEvents,
                           setExecutedCalls>>
       ELSE /\ Len(twsRequests) < MaxRequests
            \* Connection.cancelOrder
            /\ connected' = TRUE
            /\ twsRequests' = Append(twsRequests,
                    [req |-> "cancelOrder", orderId |-> order.orderId])
            /\ lastCall' = Call("cancelOrder", o, FALSE)
            /\ UNCHANGED <<ibOrders, brokerOrders, connOrderId, connOrderIds,
                           orderEvents, setExecutedCalls>>

\* Connection.cancelOrder(orderId) called directly: connect(), then the
\* request is sent for whatever order id is given.
ConnCancelOrder(orderId) ==
    /\ Len(twsRequests) < MaxRequests
    /\ connected' = TRUE
    /\ twsRequests' = Append(twsRequests,
            [req |-> "cancelOrder", orderId |-> orderId])
    /\ lastCall' = Call("connCancelOrder", 0, FALSE)
    /\ UNCHANGED <<ibOrders, brokerOrders, connOrderId, connOrderIds,
                   orderEvents, setExecutedCalls>>

\* Order.setOrderId(orderId) called by the strategy
SetOrderId(o, orderId) ==
    /\ o \in DOMAIN ibOrders
    /\ ibOrders' = [ibOrders EXCEPT ![o] = setOrderId(ibOrders[o], orderId)]
    /\ lastCall' = Call("setOrderId", o, FALSE)
    /\ UNCHANGED <<brokerOrders, connOrderId, connOrderIds, connected,
                   twsRequests, orderEvents, setExecutedCalls>>

\* Order.setGoodTillCanceled(goodTillCanceled)
SetGoodTillCanceled(o, goodTillCanceled) ==
    /\ o \in DOMAIN ibOrders
    /\ ibOrders' = [ibOrders EXCEPT ![o].goodTillCanceled = goodTillCanceled]
    /\ lastCall' = Call("setGoodTillCanceled", o, FALSE)
    /\ UNCHANGED <<brokerOrders, connOrderId, connOrderIds, connected,
                   twsRequests, orderEvents, setExecutedCalls>>

\* LimitOrder.setLimitPrice / StopLimitOrder.setLimitPrice: the other order
\* classes have no such method.
SetLimitPrice(o, limitPrice) ==
    /\ o \in DOMAIN ibOrders
    /\ ibOrders[o].type \in {"LIMIT", "STOP_LIMIT"}
    /\ ibOrders' = [ibOrders EXCEPT ![o].limitPrice = limitPrice]
    /\ lastCall' = Call("setLimitPrice", o, FALSE)
    /\ UNCHANGED <<brokerOrders, connOrderId, connOrderIds, connected,
                   twsRequests, orderEvents, setExecutedCalls>>

\* StopOrder.setStopPrice / StopLimitOrder.setStopPrice
SetStopPrice(o, stopPrice) ==
    /\ o \in DOMAIN ibOrders
    /\ ibOrders[o].type \in {"STOP", "STOP_LIMIT"}
    /\ ibOrders' = [ibOrders EXCEPT ![o].stopPrice = stopPrice]
    /\ lastCall' = Call("setStopPrice", o, FALSE)
    /\ UNCHANGED <<brokerOrders, connOrderId, connOrderIds, connected,
                   twsRequests, orderEvents, setExecutedCalls>>

\* No order: the lookup in Broker.__orders raised KeyError.
NoOrder == 0

\* Mutant of LookupOrder: an id that is not registered falls back to a
\* registered order.
LookupOrder_Fallback(orders, orderId) ==
    IF orderId \in DOMAIN orders THEN orders[orderId]
    ELSE IF DOMAIN orders # {} THEN orders[CHOOSE k \in DOMAIN orders : TRUE]
    ELSE NoOrder

\* Broker.__orderUpdate: order = self.__orders[orderId], or KeyError.
LookupOrder(orders, orderId) ==
    IF orderId \in DOMAIN orders THEN orders[orderId] ELSE NoOrder

\* Mutant of OrderUpdateEffect: a 'Filled' status executes the order whatever
\* remains.
OrderUpdateEffect_PartialFill(status, remaining) ==
    IF status = "Cancelled" THEN "cancel"
    ELSE IF status = "PreSubmitted" THEN "skip"
    ELSE IF status = "Filled" THEN "execute"
    ELSE "skip"

\* What Broker.__orderUpdate does with a status for a registered order.
\*   "cancel"  : setState(CANCELED) and emit
\*   "execute" : setExecuted(...) and emit
\*   "skip"    : nothing
OrderUpdateEffect(status, remaining) ==
    IF status = "Cancelled" THEN "cancel"
    ELSE IF status = "PreSubmitted" THEN "skip"
    ELSE IF status = "Filled" THEN (IF remaining = 0 THEN "execute" ELSE "skip")
    ELSE "skip"

\* Connection.orderStatus callback, which emits to Broker.__orderUpdate.
OrderStatus(orderId, status, filled, remaining, avgFillPrice) ==
    /\ IF LookupOrder(brokerOrders, orderId) = NoOrder
       THEN \* KeyError: the update is ignored
            /\ lastCall' = Call("orderStatus", NoOrder, FALSE)
            /\ UNCHANGED <<ibOrders, orderEvents, setExecutedCalls>>
       ELSE LET o == LookupOrder(brokerOrders, orderId)
                order == ibOrders[o]
                effect == OrderUpdateEffect(status, remaining)
            IN
            /\ lastCall' = Call("orderStatus", o, FALSE)
            /\ effect # "skip" => Len(orderEvents) < MaxEvents
            /\ CASE effect = "cancel" ->
                      /\ ibOrders' = [ibOrders EXCEPT ![o] = setState(order, "CANCELED")]
                      /\ orderEvents' = Append(orderEvents, [order |-> o, state |-> "CANCELED"])
                      /\ UNCHANGED setExecutedCalls
                 [] effect = "execute" ->
                      /\ ibOrders' = [ibOrders EXCEPT ![o] =
                            setExecuted(order,
                                [price |-> avgFillPrice, quantity |-> filled,
                                 commission |-> FlatRateCommission(avgFillPrice, filled)])]
                      /\ setExecutedCalls' = [setExecutedCalls EXCEPT ![o] = @ + 1]
                      /\ orderEvents' = Append(orderEvents, [order |-> o, state |-> "FILLED"])
                 [] OTHER ->
                      UNCHANGED <<ibOrders, orderEvents, setExecutedCalls>>
    /\ UNCHANGED <<brokerOrders, connOrderId, connOrderIds, connected,
                   twsRequests>>

\* Connection.createOrder called directly, with orderId=None (NoneId) or with
\* an explicit order id.
ConnCreateOrder(orderId) ==
    LET orderId_ == CreateOrderId(orderId) IN
    /\ Len(twsRequests) < MaxRequests
    /\ connected' = TRUE
    /\ connOrderId' = NextOrderIdAfter(orderId)
    /\ connOrderIds' = Put(connOrderIds, orderId_, Instrument)
    /\ twsRequests' = Append(twsRequests,
            [req |-> "placeOrder", orderId |-> orderId_, symbol |-> Instrument,
             action |-> "BUY", orderType |-> "MKT", lmtPrice |-> 0,
             auxPrice |-> 0, tif |-> "DAY",
             totalQuantity |-> 12, minQuantity |-> 0,
             allocated |-> (orderId = NoneId)])
    /\ lastCall' = Call("connCreateOrder", 0, FALSE)
    /\ UNCHANGED <<ibOrders, brokerOrders, orderEvents, setExecutedCalls>>

\* Connection.nextValidId(orderId) callback
NextValidId(orderId) ==
    /\ connOrderId' = orderId
    /\ lastCall' = Call("nextValidId", 0, FALSE)
    /\ UNCHANGED <<ibOrders, brokerOrders, connOrderIds, connected,
                   twsRequests, orderEvents, setExecutedCalls>>

\* Symbols of the contracts TWS names in openOrder.
OpenOrderSymbols == {Instrument, "ABC"}

\* Connection.openOrder(orderId, contract, order, orderState) callback: the
\* contract's symbol is stored under the order id.
OpenOrder(orderId, symbol) ==
    /\ connOrderIds' = Put(connOrderIds, orderId, symbol)
    /\ lastCall' = Call("openOrder", 0, FALSE)
    /\ UNCHANGED <<ibOrders, brokerOrders, connOrderId, connected,
                   twsRequests, orderEvents, setExecutedCalls>>

\* The orders the strategy creates in this specification: one per side the
\* broker distinguishes, over the order types and both times in force.
OrderKinds == {<<"MARKET", "BUY", FALSE>>, <<"LIMIT", "SELL", TRUE>>,
               <<"STOP_LIMIT", "BUY_TO_COVER", FALSE>>}

\* The prices the strategy gives an order it has created.
NewLimitPrices == {7}
NewStopPrices == {8}

NextIB ==
    \/ \E kind \in OrderKinds : CreateOrder(kind[1], kind[2], kind[3])
    \/ \E o \in 1 .. MaxOrders : PlaceOrder(o)
    \/ \E o \in 1 .. MaxOrders : CancelOrder(o)
    \/ \E orderId \in TwsOrderIds : ConnCancelOrder(orderId)
    \/ \E o \in 1 .. MaxOrders, orderId \in TwsOrderIds : SetOrderId(o, orderId)
    \/ \E o \in 1 .. MaxOrders, goodTillCanceled \in BOOLEAN :
          SetGoodTillCanceled(o, goodTillCanceled)
    \/ \E o \in 1 .. MaxOrders, limitPrice \in NewLimitPrices :
          SetLimitPrice(o, limitPrice)
    \/ \E o \in 1 .. MaxOrders, stopPrice \in NewStopPrices :
          SetStopPrice(o, stopPrice)
    \/ \E orderId \in TwsOrderIds, status \in TwsStatuses, remaining \in {0, 5} :
          OrderStatus(orderId, status, 12 - remaining, remaining, 25)

\* The operations that allocate or use order ids.
NextOrderIds ==
    /\ \/ \E kind \in OrderKinds : CreateOrder(kind[1], kind[2], kind[3])
       \/ \E o \in 1 .. MaxOrders : PlaceOrder(o)
       \/ \E orderId \in {NoneId} \cup TwsOrderIds : ConnCreateOrder(orderId)
       \/ \E orderId \in TwsOrderIds : ConnCancelOrder(orderId)
       \/ \E o \in 1 .. MaxOrders, orderId \in TwsOrderIds : SetOrderId(o, orderId)
       \/ \E orderId \in TwsOrderIds : NextValidId(orderId)
       \/ \E orderId \in TwsOrderIds, symbol \in OpenOrderSymbols :
             OpenOrder(orderId, symbol)
    /\ UNCHANGED <<ptVars, btVars, moreVars>>

-----------------------------------------------------------------------------
(* Part II : returns.PositionTracker.  Prices and commissions are integers  *)
(* (cents); a return is the exact fraction <<netProfit, cost>>.             *)

Abs(x) == IF x < 0 THEN -x ELSE x

\* PositionTracker.__init__
NewPositionTracker == [shares |-> 0, cost |-> 0, cash |-> 0, commissions |-> 0]

\* Mutant of OpeningQuantity: every trade is counted as opening a position.
OpeningQuantity_NoSplit(shares, quantity) == Abs(quantity)

\* The part of a trade of signed size `quantity` that opens or extends the
\* position (the rest closes existing shares): a trade through zero is split
\* into a closing leg and an opening leg.
OpeningQuantity(shares, quantity) ==
    IF shares = 0 \/ (shares > 0) = (quantity > 0)
    THEN Abs(quantity)
    ELSE Max2(0, Abs(quantity) - Abs(shares))

\* The common part of buy (quantity > 0) and sell (quantity < 0).
TrackerTrade(pt, quantity, price, commission) ==
    [shares |-> pt.shares + quantity,
     cost |-> pt.cost + OpeningQuantity(pt.shares, quantity) * price,
     cash |-> pt.cash - quantity * price,
     commissions |-> pt.commissions + commission]

\* PositionTracker.buy(quantity, price, commission=0)
TrackerBuy(pt, quantity, price, commission) ==
    TrackerTrade(pt, quantity, price, commission)

\* PositionTracker.sell(quantity, price, commission=0)
TrackerSell(pt, quantity, price, commission) ==
    TrackerTrade(pt, -quantity, price, commission)

\* PositionTracker.update(price): mark to market; the tracker starts again as
\* if the current shares had just been traded at `price`.
TrackerUpdate(pt, price) ==
    IF pt.shares = 0 THEN NewPositionTracker
    ELSE TrackerTrade(NewPositionTracker, pt.shares, price, 0)

\* PositionTracker.getCost()
getCost(pt) == pt.cost

\* PositionTracker.getNetProfit(price, includeCommissions=True)
getNetProfit(pt, price, includeCommissions) ==
    pt.cash + pt.shares * price - (IF includeCommissions THEN pt.commissions ELSE 0)

\* PositionTracker.getReturn(price, includeCommissions=True): netProfit / cost,
\* and 0 when the cost is 0.  The fraction is kept exact.
getReturn(pt, price, includeCommissions) ==
    IF pt.cost # 0
    THEN <<getNetProfit(pt, price, includeCommissions), pt.cost>>
    ELSE <<0, 1>>

InitPT ==
    /\ posTracker = NewPositionTracker
    /\ ptLog = << >>

TrackerCall(op, quantity, price, commission) ==
    [op |-> op, quantity |-> quantity, price |-> price, commission |-> commission,
     fresh |-> (posTracker = NewPositionTracker)]

Buy(quantity, price, commission) ==
    /\ Len(ptLog) < MaxTrackerOps
    /\ posTracker' = TrackerBuy(posTracker, quantity, price, commission)
    /\ ptLog' = Append(ptLog, TrackerCall("buy", quantity, price, commission))
    /\ UNCHANGED <<ibVars, btVars, moreVars>>

Sell(quantity, price, commission) ==
    /\ Len(ptLog) < MaxTrackerOps
    /\ posTracker' = TrackerSell(posTracker, quantity, price, commission)
    /\ ptLog' = Append(ptLog, TrackerCall("sell", quantity, price, commission))
    /\ UNCHANGED <<ibVars, btVars, moreVars>>

Update(price) ==
    /\ Len(ptLog) < MaxTrackerOps
    /\ posTracker' = TrackerUpdate(posTracker, price)
    /\ ptLog' = Append(ptLog, TrackerCall("update", 0, price, 0))
    /\ UNCHANGED <<ibVars, btVars, moreVars>>

TradeQuantities == {1, 2, 11}
TradePrices == {10, 11, 13}
TradeCommissions == {0, 1}
\* 5000 is the tests' "invalid price": a price no trade used.
EvalPrices == TradePrices \cup {0, 20, 5000}

NextPT ==
    \/ \E q \in TradeQuantities, p \in TradePrices, c \in TradeCommissions : Buy(q, p, c)
    \/ \E q \in TradeQuantities, p \in TradePrices, c \in TradeCommissions : Sell(q, p, c)
    \/ \E p \in TradePrices : Update(p)

-----------------------------------------------------------------------------
(* Part III : the backtesting broker and the bar dispatch loop.  One        *)
(* instrument; prices are integers.                                         *)

InitialCash == 25

\* The bars the feed can produce for the instrument.
FeedBars ==
    { [open |-> 10, high |-> 12, low |-> 9,  close |-> 11, adjClose |-> 11],
      [open |-> 12, high |-> 14, low |-> 11, close |-> 13, adjClose |-> 13],
      [open |-> 14, high |-> 16, low |-> 12, close |-> 14, adjClose |-> 7] }

\* Bar prices as the broker reads them: adjusted by adjClose/close when the
\* broker uses adjusted values.
getBarOpen(bar, useAdjusted) ==
    IF useAdjusted THEN (bar.open * bar.adjClose) \div bar.close ELSE bar.open

getBarClose(bar, useAdjusted) ==
    IF useAdjusted THEN bar.adjClose ELSE bar.close

IsBuySide(action) == action \in {"BUY", "BUY_TO_COVER"}

\* A new backtesting order.  submittedAt is the number of the Bars being
\* handled when the order was placed (0: before the run); matchedAt is the
\* number of the last Bars the order was matched against (0: none yet).
NewBtOrder(kind, barNo) ==
    [type |-> kind.type, action |-> kind.action, quantity |-> kind.quantity,
     limitPrice |-> kind.limitPrice, stopPrice |-> kind.stopPrice,
     goodTillCanceled |-> kind.goodTillCanceled, onClose |-> kind.onClose,
     limitOrderActive |-> FALSE,
     state |-> "ACCEPTED", executionInfo |-> NoExecutionInfo,
     submittedAt |-> barNo, matchedAt |-> 0]

\* A fill price is a sequence: << >> when the order does not fill in the bar.

\* Mutant of MarketFill: on-close orders are filled at the open as well.
MarketFill_AlwaysOpen(order, bar, useAdjusted) ==
    <<getBarOpen(bar, useAdjusted)>>

\* MARKET: fills unconditionally, at the open of the bar, or at its close for
\* an order created with onClose.
MarketFill(order, bar, useAdjusted) ==
    IF order.onClose
    THEN <<getBarClose(bar, useAdjusted)>>
    ELSE <<getBarOpen(bar, useAdjusted)>>

\* Mutant of LimitFill: always fills at the limit price.
LimitFill_AtLimit(action, limitPrice, bar) ==
    IF IsBuySide(action)
    THEN (IF bar.low <= limitPrice THEN <<limitPrice>> ELSE << >>)
    ELSE (IF bar.high >= limitPrice THEN <<limitPrice>> ELSE << >>)

\* LIMIT: a buy fills at min(limit, open) if low <= limit; a sell fills at
\* max(limit, open) if high >= limit.
LimitFill(action, limitPrice, bar) ==
    IF IsBuySide(action)
    THEN (IF bar.low <= limitPrice THEN <<Min2(limitPrice, bar.open)>> ELSE << >>)
    ELSE (IF bar.high >= limitPrice THEN <<Max2(limitPrice, bar.open)>> ELSE << >>)

\* The bar's range crosses the stop price.
StopHit(action, stopPrice, bar) ==
    IF IsBuySide(action) THEN bar.high >= stopPrice ELSE bar.low <= stopPrice

\* STOP: once hit, a buy fills at max(stop, open), a sell at min(stop, open).
StopFill(action, stopPrice, bar) ==
    IF ~StopHit(action, stopPrice, bar) THEN << >>
    ELSE IF IsBuySide(action) THEN <<Max2(stopPrice, bar.open)>>
    ELSE <<Min2(stopPrice, bar.open)>>

\* STOP_LIMIT, first phase: the limit order is active once the stop was hit.
ActivateStopLimit(order, bar) ==
    IF order.type = "STOP_LIMIT"
    THEN [order EXCEPT !.limitOrderActive = @ \/ StopHit(order.action, order.stopPrice, bar)]
    ELSE order

\* The fill price of an order against a bar (after ActivateStopLimit).
TryFill(order, bar, useAdjusted) ==
    CASE order.type = "MARKET" -> MarketFill(order, bar, useAdjusted)
      [] order.type = "LIMIT" -> LimitFill(order.action, order.limitPrice, bar)
      [] order.type = "STOP" -> StopFill(order.action, order.stopPrice, bar)
      [] order.type = "STOP_LIMIT" ->
            IF order.limitOrderActive
            THEN LimitFill(order.action, order.limitPrice, bar)
            ELSE << >>

\* Mutant of CashAfterFill: a sell is charged like a buy.
CashAfterFill_SellAsBuy(cash, action, price, quantity, commission) ==
    cash - (price * quantity + commission)

\* Cash after a fill: a buy pays price*quantity + commission, a sell receives
\* price*quantity - commission.
CashAfterFill(cash, action, price, quantity, commission) ==
    IF IsBuySide(action)
    THEN cash - (price * quantity + commission)
    ELSE cash + (price * quantity - commission)

SharesAfterFill(shares, action, quantity) ==
    IF IsBuySide(action) THEN shares + quantity ELSE shares - quantity

\* Mutant of ExpiresUnfilled: no order ever expires.
ExpiresUnfilled_Never(order) == FALSE

\* An order left unfilled by a bar is canceled at the end of the bar's
\* processing unless it is good-till-canceled.
ExpiresUnfilled(order) == ~order.goodTillCanceled

\* An emission of the order-updated event, with the Bars number and the phase
\* of the dispatch loop at which it happened.
BtEvent(o, state, barNo, phase) ==
    [order |-> o, state |-> state, barNo |-> barNo, phase |-> phase]

\* The matching of one active order o against the bar, applied to the
\* broker state st = [orders, active, cash, shares, events].
MatchOrder(st, o, bar, barNo, phase, config) ==
    LET order == [ActivateStopLimit(st.orders[o], bar) EXCEPT !.matchedAt = barNo]
        fill == TryFill(order, bar, config.useAdjusted)
    IN  IF fill # << >>
        THEN LET price == fill[1]
                 info == [price |-> price, quantity |-> order.quantity,
                          commission |-> config.commission, dateTime |-> barNo]
             IN  [orders |-> [st.orders EXCEPT ![o] =
                                [order EXCEPT !.state = "FILLED",
                                              !.executionInfo = <<info>>]],
                  active |-> st.active,
                  cash |-> CashAfterFill(st.cash, order.action, price,
                                         order.quantity, config.commission),
                  shares |-> SharesAfterFill(st.shares, order.action, order.quantity),
                  events |-> Append(st.events, BtEvent(o, "FILLED", barNo, phase))]
        ELSE IF ExpiresUnfilled(order)
        THEN [st EXCEPT !.orders[o] = [order EXCEPT !.state = "CANCELED"],
                        !.events = Append(st.events, BtEvent(o, "CANCELED", barNo, phase))]
        ELSE [st EXCEPT !.orders[o] = order,
                        !.active = Append(st.active, o)]

\* The matching pass: the active orders are processed in order of submission.
RECURSIVE MatchAll(_, _, _, _, _, _)
MatchAll(st, pending, bar, barNo, phase, config) ==
    IF pending = << >> THEN st
    ELSE MatchAll(MatchOrder(st, Head(pending), bar, barNo, phase, config),
                  Tail(pending), bar, barNo, phase, config)

\* The price a buy order is valued at when it is placed: its limit price, its
\* stop price, or for a market order the close of the latest bar (none before
\* the first bar).
PlacementPrice(kind, bars, useAdjusted) ==
    CASE kind.type \in {"LIMIT", "STOP_LIMIT"} -> <<kind.limitPrice>>
      [] kind.type = "STOP" -> <<kind.stopPrice>>
      [] OTHER -> IF bars = << >> THEN << >>
                  ELSE <<getBarClose(bars[1], useAdjusted)>>

\* InsufficientFundsError: a buy whose notional plus commission exceeds the
\* available cash is rejected when it is placed.
InsufficientFunds(kind, cash, bars, config) ==
    LET ref == PlacementPrice(kind, bars, config.useAdjusted) IN
    /\ IsBuySide(kind.action)
    /\ ref # << >>
    /\ ref[1] * kind.quantity + config.commission > cash

\* Mutant of DispatchOrder: the strategy is called before the broker.
DispatchOrder_StrategyFirst == <<"feed", "strategy", "broker">>

\* The order of a dispatch step: the feed produces the Bars, the broker matches
\* its orders against them, the strategy's bar handler runs.
DispatchOrder == <<"feed", "broker", "strategy">>

PhaseIndex(phase) == CHOOSE i \in 1 .. 3 : DispatchOrder[i] = phase

\* The phase that follows `phase` in the dispatch loop.
PhaseAfter(phase) == DispatchOrder[(PhaseIndex(phase) % 3) + 1]

InitBT ==
    /\ btConfig \in [commission : {0, 1}, useAdjusted : BOOLEAN]
    /\ btCash = InitialCash
    /\ btShares = 0
    /\ btOrders = << >>
    /\ btActive = << >>
    /\ btBars = << >>
    /\ btBarNo = 0
    /\ btPhase = "feed"
    /\ btEvents = << >>
    /\ btError = ""

\* The strategy (or the test, before the run) may call the broker while its
\* bar handler runs, and before the first Bars are dispatched.
StrategyMayCall == btPhase = "strategy" \/ (btPhase = "feed" /\ btBarNo = 0)

\* Dispatch step (1) and (2): the feed produces the next Bars.
FeedNextBars(bar) ==
    /\ btPhase = "feed"
    /\ btBarNo < MaxBars
    /\ btBars' = <<bar>>
    /\ btBarNo' = btBarNo + 1
    /\ btPhase' = PhaseAfter("feed")
    /\ btError' = ""
    /\ UNCHANGED <<btConfig, btCash, btShares, btOrders, btActive, btEvents>>

\* Dispatch step (3): the broker's matching pass against the current Bars.
BrokerOnBars ==
    /\ btPhase = "broker"
    /\ LET st == MatchAll([orders |-> btOrders, active |-> << >>, cash |-> btCash,
                           shares |-> btShares, events |-> btEvents],
                          btActive, btBars[1], btBarNo, btPhase, btConfig)
       IN  /\ btOrders' = st.orders
           /\ btActive' = st.active
           /\ btCash' = st.cash
           /\ btShares' = st.shares
           /\ btEvents' = st.events
    /\ btPhase' = PhaseAfter("broker")
    /\ btError' = ""
    /\ UNCHANGED <<btConfig, btBars, btBarNo>>

\* Dispatch step (4) ends: the strategy's bar handler returns.
StrategyOnBarsReturns ==
    /\ btPhase = "strategy"
    /\ btPhase' = PhaseAfter("strategy")
    /\ btError' = ""
    /\ UNCHANGED <<btConfig, btCash, btShares, btOrders, btActive, btBars,
                   btBarNo, btEvents>>

\* createXOrder followed by placeOrder, for at most maxOrders orders.
BtPlaceOrder(kind, maxOrders) ==
    /\ StrategyMayCall
    /\ Len(btOrders) < maxOrders
    /\ IF InsufficientFunds(kind, btCash, btBars, btConfig)
       THEN /\ btError' = "InsufficientFundsError"
            /\ UNCHANGED <<btOrders, btActive>>
       ELSE /\ btOrders' = Append(btOrders, NewBtOrder(kind, btBarNo))
            /\ btActive' = Append(btActive, Len(btOrders) + 1)
            /\ btError' = ""
    /\ UNCHANGED <<btConfig, btCash, btShares, btBars, btBarNo, btPhase, btEvents>>

BtSubmitOrder(kind) == BtPlaceOrder(kind, MaxBtOrders)

\* The same call in a run with several orders.
BtSubmitFurtherOrder(kind) == BtPlaceOrder(kind, MaxCashOrders)

\* placeOrder on an order that was submitted before: InvalidStateError once
\* the order is FILLED or CANCELED; an active order is not queued twice.
BtResubmitOrder(o) ==
    /\ StrategyMayCall
    /\ o \in DOMAIN btOrders
    /\ btError' = IF btOrders[o].state # "ACCEPTED" THEN "InvalidStateError" ELSE ""
    /\ UNCHANGED <<btConfig, btCash, btShares, btOrders, btActive, btBars,
                   btBarNo, btPhase, btEvents>>

\* cancelOrder: InvalidStateError for a FILLED or CANCELED order; otherwise the
\* order leaves the active set at once.
BtCancelOrder(o) ==
    /\ StrategyMayCall
    /\ o \in DOMAIN btOrders
    /\ IF btOrders[o].state # "ACCEPTED"
       THEN /\ btError' = "InvalidStateError"
            /\ UNCHANGED <<btOrders, btActive, btEvents>>
       ELSE /\ btOrders' = [btOrders EXCEPT ![o].state = "CANCELED"]
            /\ btActive' = SelectSeq(btActive, LAMBDA a : a # o)
            /\ btEvents' = Append(btEvents, BtEvent(o, "CANCELED", btBarNo, btPhase))
            /\ btError' = ""
    /\ UNCHANGED <<btConfig, btCash, btShares, btBars, btBarNo, btPhase>>

BtKind(type, action, quantity, limitPrice, stopPrice, gtc, onClose) ==
    [type |-> type, action |-> action, quantity |-> quantity,
     limitPrice |-> limitPrice, stopPrice |-> stopPrice,
     goodTillCanceled |-> gtc, onClose |-> onClose]

\* The orders the strategy submits.
BtOrderKinds ==
    { BtKind("MARKET", "BUY", 1, 0, 0, FALSE, FALSE),
      BtKind("MARKET", "SELL", 1, 0, 0, TRUE, TRUE),
      BtKind("MARKET", "SELL", 2, 0, 0, FALSE, FALSE),
      BtKind("LIMIT", "BUY", 2, 11, 0, TRUE, FALSE),
      BtKind("LIMIT", "BUY", 1, 11, 0, FALSE, FALSE),
      BtKind("STOP", "SELL_SHORT", 1, 0, 11, FALSE, FALSE),
      BtKind("STOP_LIMIT", "BUY_TO_COVER", 1, 13, 13, TRUE, FALSE) }

NextBT ==
    /\ \/ \E bar \in FeedBars : FeedNextBars(bar)
       \/ BrokerOnBars
       \/ StrategyOnBarsReturns
       \/ \E kind \in BtOrderKinds : BtSubmitOrder(kind)
       \/ \E o \in 1 .. MaxBtOrders : BtResubmitOrder(o)
       \/ \E o \in 1 .. MaxBtOrders : BtCancelOrder(o)
    /\ UNCHANGED <<ibVars, ptVars, moreVars>>

\* The dispatch loop with a strategy that submits several orders.
NextCash ==
    /\ \/ \E bar \in FeedBars : FeedNextBars(bar)
       \/ BrokerOnBars
       \/ StrategyOnBarsReturns
       \/ \E kind \in BtOrderKinds : BtSubmitFurtherOrder(kind)
       \/ \E o \in 1 .. MaxCashOrders : BtResubmitOrder(o)
       \/ \E o \in 1 .. MaxCashOrders : BtCancelOrder(o)
    /\ UNCHANGED <<ibVars, ptVars, moreVars>>

-----------------------------------------------------------------------------
(* Part IV : FlatRateCommission.calculate as a function of its inputs *)

\* Prices (whole dollars) and quantities the commission is computed for: the
\* two cases of the test, both sides of the 500 share tier, and trade values
\* on both sides of the point where 0.5% of the trade value is 1.30.
CommissionPrices == {1, 2, 3, 5, 13, 25, 26, 50, 100, 260}
CommissionQuantities == {1, 2, 10, 52, 100, 200, 499, 500, 501, 700}

NoCommissionCall == [called |-> FALSE, price |-> 0, quantity |-> 0, result |-> 0]

InitCM == commissionCall = NoCommissionCall

\* comm.calculate(order=None, price, quantity)
Calculate(price, quantity) ==
    /\ commissionCall' = [called |-> TRUE, price |-> price, quantity |-> quantity,
                          result |-> FlatRateCommission(price, quantity)]
    /\ UNCHANGED <<ibVars, ptVars, btVars, acVars, lfVars, cnVars, xtVars>>

NextCM ==
    \E price \in CommissionPrices, quantity \in CommissionQuantities :
        Calculate(price, quantity)

-----------------------------------------------------------------------------
(* Part IV : account values (Connection.getCash, Broker.getCash / setCash) *)

\* Connection.__accountCode (the default of Connection.__init__) and another
\* account TWS may report.
AccountCode == "NONE"
AccountNames == {AccountCode, "DU000"}
AccountKeys == {"TotalCashBalance", "NetLiquidation"}

\* Values arrive from TWS as strings.
AccountValueStrings == {"28989.07", "420"}

\* float(value), in cents.
Float(value) ==
    CASE value = "28989.07" -> 2898907
      [] value = "420" -> 42000

\* Amounts, in cents, the strategy may try to set.
CashAmounts == {0, 42000, 2898907}

\* Connection.getCash(currency='USD'): the account's TotalCashBalance.  The
\* call waits until the value has been received.
CashKey == <<AccountCode, "USD", "TotalCashBalance">>
HasCash(values) == CashKey \in DOMAIN values
getCash(values) == Float(values[CashKey])

\* Mutant of SetCashRaises: only negative amounts are refused.
SetCashRaises_OnlyNegative(cash) == cash < 0

\* Broker.setCash raises whatever the amount.
SetCashRaises(cash) == TRUE

AccountCall(op, arg, raised, result) ==
    [op |-> op, arg |-> arg, raised |-> raised, result |-> result]

\* Broker.__init__ has called Connection.getCash, which subscribed to the
\* account updates and returned once TotalCashBalance was known.
InitAC ==
    /\ accountValues = Put(<< >>, CashKey, "28989.07")
    /\ accountUpdatesSubscribed = TRUE
    /\ accountCall = AccountCall("init", 0, FALSE, 0)

\* The strategy's thread is inside Broker.getCash, which has not returned.
InGetCash == accountCall.op = "getCash, waiting"

\* Connection.updateAccountValue(key, value, currency, accountName), called
\* by the reader thread.
UpdateAccountValue(key, value, currency, accountName) ==
    /\ accountValues' = Put(accountValues, <<accountName, currency, key>>, value)
    /\ accountCall' = IF InGetCash THEN accountCall
                      ELSE AccountCall("updateAccountValue", 0, FALSE, 0)
    /\ UNCHANGED accountUpdatesSubscribed
    /\ UNCHANGED <<ibVars, ptVars, btVars, cmVars, lfVars, cnVars, xtVars>>

\* Broker.getCash(), up to the lock: Connection.getCash calls
\* requestAccountUpdate, which subscribes to the account updates.
GetCash ==
    /\ ~InGetCash
    /\ accountUpdatesSubscribed' = TRUE
    /\ accountCall' = AccountCall("getCash, waiting", 0, FALSE, 0)
    /\ UNCHANGED accountValues
    /\ UNCHANGED <<ibVars, ptVars, btVars, cmVars, lfVars, cnVars, xtVars>>

\* Broker.getCash(), under the lock: the call waits while the account's
\* TotalCashBalance is unknown, and returns it once it is known.
GetCashReturns ==
    /\ InGetCash
    /\ HasCash(accountValues)
    /\ accountCall' = AccountCall("getCash", 0, FALSE, getCash(accountValues))
    /\ UNCHANGED <<accountValues, accountUpdatesSubscribed>>
    /\ UNCHANGED <<ibVars, ptVars, btVars, cmVars, lfVars, cnVars, xtVars>>

\* Broker.setCash(cash)
SetCash(cash) ==
    /\ ~InGetCash
    /\ accountCall' = AccountCall("setCash", cash, SetCashRaises(cash), 0)
    /\ UNCHANGED <<accountValues, accountUpdatesSubscribed>>
    /\ UNCHANGED <<ibVars, ptVars, btVars, cmVars, lfVars, cnVars, xtVars>>

NextAC ==
    \/ \E key \in AccountKeys, value \in AccountValueStrings,
          accountName \in AccountNames :
            UpdateAccountValue(key, value, "USD", accountName)
    \/ GetCash
    \/ GetCashReturns
    \/ \E cash \in CashAmounts : SetCash(cash)

-----------------------------------------------------------------------------
(* Part V : ibfeed.LiveFeed *)

FeedInstruments == {"XXX", "YYY"}

\* dateTimes of the realtime bars, in seconds.
FeedTimes == {0, 5, 10}

\* Python's None.
None == "None"

\* An attribute that was never assigned: reading it raises AttributeError.
\* Inside class LiveFeed the name self.__prevDateTime is the attribute
\* _LiveFeed__prevDateTime, which LiveFeed.__init__ does not create; the
\* same holds for self.__ds and self.__newBarsEvent.
AbsentAttr == "absent"

\* LiveFeed.__init__
InitLF ==
    /\ feedCurrentBars = << >>
    /\ feedCurrentDatetime = AbsentAttr
    /\ feedQueue = << >>
    /\ feedRunning = TRUE
    /\ feedPrevDateTime = AbsentAttr
    /\ feedEmitted = << >>
    /\ feedResult = "init"
    /\ feedSeries = [i \in FeedInstruments |-> << >>]
    /\ feedHandlerSaw = << >>
    /\ feedStopDispatching = AbsentAttr
    /\ barFeedStopDispatching = FALSE
    /\ feedReceived = << >>
    /\ feedQueued = << >>
    /\ feedFetched = << >>
    /\ feedPc = "idle"

\* BarFeed.stopDispatching(), which LiveFeed inherits: it reports the state
\* the base class keeps for itself.  Inside class LiveFeed the name
\* self.__stopDispatching is the attribute _LiveFeed__stopDispatching, which
\* no method of the base class reads.
StopDispatching == barFeedStopDispatching

\* Broker.stopDispatching(): the bar feed's answer.
BrokerStopDispatching == StopDispatching

\* bar.Bars(barDict).getDateTime(): the dateTime the bars of the set share.
BarsDateTime(barDict) == barDict[CHOOSE i \in DOMAIN barDict : TRUE]

\* Mutant of StartsNextSet: only a later bar closes the current set.
StartsNextSet_OnlyLater(currentDatetime, dateTime) == currentDatetime < dateTime

\* LiveFeed.onRealtimeBar: the bar closes the set being collected when its
\* dateTime differs from the set's.
StartsNextSet(currentDatetime, dateTime) == currentDatetime # dateTime

\* LiveFeed.onRealtimeBar((instrument, bar))
OnRealtimeBar(instrument, dateTime) ==
    /\ Len(feedReceived) < MaxReceived
    /\ feedReceived' = Append(feedReceived, <<instrument, dateTime>>)
    /\ IF DOMAIN feedCurrentBars = {}
       THEN /\ feedCurrentDatetime' = dateTime
            /\ feedCurrentBars' = Put(feedCurrentBars, instrument, dateTime)
            /\ UNCHANGED <<feedQueue, feedQueued>>
       ELSE IF StartsNextSet(feedCurrentDatetime, dateTime)
       THEN /\ Len(feedQueue) < MaxQueue
            /\ feedCurrentDatetime' = dateTime
            /\ feedCurrentBars' = Put(<< >>, instrument, dateTime)
            /\ feedQueue' = Append(feedQueue, feedCurrentBars)
            /\ feedQueued' = Append(feedQueued, feedCurrentBars)
       ELSE /\ feedCurrentBars' = Put(feedCurrentBars, instrument, dateTime)
            /\ UNCHANGED <<feedCurrentDatetime, feedQueue, feedQueued>>
    /\ UNCHANGED <<feedRunning, feedPrevDateTime, feedEmitted, feedResult,
                   feedSeries, feedHandlerSaw, feedStopDispatching,
                   barFeedStopDispatching, feedFetched, feedPc>>
    /\ UNCHANGED <<ibVars, ptVars, btVars, cmVars, acVars, cnVars, xtVars>>

\* LiveFeed.stop()
FeedStop ==
    /\ feedRunning
    /\ feedRunning' = FALSE
    /\ UNCHANGED <<feedCurrentBars, feedCurrentDatetime, feedQueue,
                   feedPrevDateTime, feedEmitted, feedResult, feedSeries,
                   feedHandlerSaw, feedStopDispatching, barFeedStopDispatching,
                   feedReceived, feedQueued, feedFetched, feedPc>>
    /\ UNCHANGED <<ibVars, ptVars, btVars, cmVars, acVars, cnVars, xtVars>>

\* LiveFeed.getNextBars after a bar-set with this dateTime was fetched:
\* "False" for an out of order bar-set, "Bars" when it is returned.
GetNextBarsOutcome(prevDateTime, dateTime) ==
    IF prevDateTime = AbsentAttr THEN "AttributeError"
    ELSE IF prevDateTime # None /\ prevDateTime >= dateTime THEN "False"
    ELSE "Bars"

\* The else branch of LiveFeed.dispatch: self.__ds and self.__newBarsEvent
\* are read, which raises because LiveFeed never assigned them.
DispatchBarsOutcome == "AttributeError"

\* Mutant of DispatchOutcome: every bar-set taken from the queue is emitted.
DispatchOutcome_EmitsAll(prevDateTime, dateTime) == "emitted"

\* LiveFeed.dispatch with a bar-set of this dateTime fetched: how the call
\* ends.  None is not among the cases (FetchedNone).
DispatchOutcome(prevDateTime, dateTime) ==
    LET bars == GetNextBarsOutcome(prevDateTime, dateTime) IN
    IF bars = "AttributeError" THEN "AttributeError"
    ELSE IF bars = "False" THEN "skipped"
    ELSE DispatchBarsOutcome

\* fetchNextBars returned None: getNextBars returns None and dispatch
\* assigns self.__stopDispatching.
FetchedNone ==
    /\ feedResult' = "stopDispatching"
    /\ feedStopDispatching' = TRUE
    /\ feedPc' = "idle"
    /\ UNCHANGED <<feedQueue, feedPrevDateTime, feedEmitted, feedSeries,
                   feedHandlerSaw, feedFetched>>

\* LiveFeed.dispatch() is called and fetchNextBars tests self.__running: it
\* returns None when the feed was stopped, and calls Queue.get(True, timeout)
\* otherwise.
FeedDispatch ==
    /\ feedPc = "idle"
    /\ IF ~feedRunning
       THEN FetchedNone
       ELSE /\ feedPc' = "get"
            /\ UNCHANGED <<feedQueue, feedPrevDateTime, feedEmitted, feedSeries,
                           feedHandlerSaw, feedFetched, feedStopDispatching,
                           feedResult>>
    /\ UNCHANGED <<feedCurrentBars, feedCurrentDatetime, feedRunning,
                   barFeedStopDispatching, feedReceived, feedQueued>>
    /\ UNCHANGED <<ibVars, ptVars, btVars, cmVars, acVars, cnVars, xtVars>>

\* Queue.get(True, timeout) finds the queue empty until the timeout and
\* raises Queue.Empty, which fetchNextBars catches.
FeedQueueEmpty ==
    /\ feedPc = "get"
    /\ feedQueue = << >>
    /\ feedPc' = "empty"
    /\ UNCHANGED <<feedQueue, feedPrevDateTime, feedEmitted, feedSeries,
                   feedHandlerSaw, feedFetched, feedStopDispatching, feedResult>>
    /\ UNCHANGED <<feedCurrentBars, feedCurrentDatetime, feedRunning,
                   barFeedStopDispatching, feedReceived, feedQueued>>
    /\ UNCHANGED <<ibVars, ptVars, btVars, cmVars, acVars, cnVars, xtVars>>

\* After Queue.Empty fetchNextBars tests self.__running again: it goes back
\* to Queue.get while the feed is running and returns None once it was
\* stopped, whatever was put on the queue since the timeout.
FeedRunningTested ==
    /\ feedPc = "empty"
    /\ IF ~feedRunning
       THEN FetchedNone
       ELSE /\ feedPc' = "get"
            /\ UNCHANGED <<feedQueue, feedPrevDateTime, feedEmitted, feedSeries,
                           feedHandlerSaw, feedFetched, feedStopDispatching,
                           feedResult>>
    /\ UNCHANGED <<feedCurrentBars, feedCurrentDatetime, feedRunning,
                   barFeedStopDispatching, feedReceived, feedQueued>>
    /\ UNCHANGED <<ibVars, ptVars, btVars, cmVars, acVars, cnVars, xtVars>>

\* Queue.get(True, timeout) returns the bar-set at the head of the queue,
\* and getNextBars and dispatch go on with it.
FeedQueueGet ==
    /\ feedPc = "get"
    /\ feedQueue # << >>
    /\ feedPc' = "idle"
    /\ LET bars == Head(feedQueue)
           dateTime == BarsDateTime(bars)
           outcome == DispatchOutcome(feedPrevDateTime, dateTime)
       IN  /\ feedQueue' = Tail(feedQueue)
           /\ feedFetched' = Append(feedFetched, bars)
           /\ UNCHANGED feedStopDispatching
           /\ feedResult' = outcome
           \* getNextBars remembers the dateTime of the bar-set it returns.
           /\ feedPrevDateTime' =
                 IF GetNextBarsOutcome(feedPrevDateTime, dateTime) = "Bars"
                 THEN dateTime ELSE feedPrevDateTime
           /\ IF outcome = "emitted"
              THEN \* Update the dataseries, then emit event.
                   /\ feedSeries' =
                         [i \in DOMAIN feedSeries |->
                             IF i \in DOMAIN bars
                             THEN Append(feedSeries[i], bars[i])
                             ELSE feedSeries[i]]
                   /\ feedHandlerSaw' =
                         [i \in DOMAIN bars |->
                             feedSeries'[i][Len(feedSeries'[i])]]
                   /\ feedEmitted' = Append(feedEmitted, dateTime)
              ELSE UNCHANGED <<feedEmitted, feedSeries, feedHandlerSaw>>
    /\ UNCHANGED <<feedCurrentBars, feedCurrentDatetime, feedRunning,
                   barFeedStopDispatching, feedReceived, feedQueued>>
    /\ UNCHANGED <<ibVars, ptVars, btVars, cmVars, acVars, cnVars, xtVars>>

NextLF ==
    \/ \E instrument \in FeedInstruments, dateTime \in FeedTimes :
          OnRealtimeBar(instrument, dateTime)
    \/ FeedStop
    \/ FeedDispatch
    \/ FeedQueueEmpty
    \/ FeedRunningTested
    \/ FeedQueueGet

-----------------------------------------------------------------------------
(* Part VI : observer.Event, as the Connection uses it *)

Range(seq) == {seq[i] : i \in DOMAIN seq}

\* pyalgotrade/observer.py is not among the sources.  An Event is the
\* ordered list of registered callback handles of the specification:
\* subscribe registers the handler at the end of the list, and emit calls
\* the registered handles in registration order.

\* Event.subscribe(handler) registering the handler.
EventSubscribe(handlers, handler) == Append(handlers, handler)

\* What Event.subscribe does with a handler the list holds already is
\* stated nowhere: the handler may be registered once more or the list
\* may be kept as it is.  The class does the same on every call: onHeld is
\* what an earlier call has shown, "" when there was none.
EventSubscribeOutcomes(handlers, handler, onHeld) ==
    IF handler \notin Range(handlers) THEN {"registered"}
    ELSE IF onHeld = "" THEN {"registered", "kept"}
    ELSE {onHeld}

\* The position of the earliest registration of the handler.
FirstRegistration(handlers, handler) ==
    CHOOSE k \in DOMAIN handlers :
        /\ handlers[k] = handler
        /\ \A j \in 1 .. (k - 1) : handlers[j] # handler

\* Event.unsubscribe(handler) takes one registration of the handler off the
\* list; a list that does not hold the handler stays as it is.
EventUnsubscribe(handlers, handler) ==
    IF handler \notin Range(handlers) THEN handlers
    ELSE LET k == FirstRegistration(handlers, handler)
         IN  SubSeq(handlers, 1, k - 1) \o SubSeq(handlers, k + 1, Len(handlers))

\* What Event.unsubscribe does with a handler the list does not hold is
\* stated nowhere: the call may raise (as list.remove does) or return
\* having changed nothing.  The class does the same on every call: onAbsent
\* is what an earlier call has shown, "" when there was none.
EventUnsubscribeOutcomes(handlers, handler, onAbsent) ==
    IF handler \in Range(handlers) THEN {"removed"}
    ELSE IF onAbsent = "" THEN {"raised", "ignored"}
    ELSE {onAbsent}

\* Event.emit((instrument, bar)): the handlers are called in registration order.
EventEmit(handlers, instrument) ==
    [i \in DOMAIN handlers |-> [handler |-> handlers[i], instrument |-> instrument]]

-----------------------------------------------------------------------------
(* Part VI : Connection, ticker-id requests *)

ConnInstruments == {"XXX", "YYY"}
ConnHandlers == {"h1", "h2"}

\* Ticker ids TWS may name in a callback.
TwsTickerIds == 0 .. MaxTickerRequests

\* lastTradeTime of an RTVolume tick, in seconds.
TickTimes == {0, 5}

\* Connection.__marketDataEmitFrequency, in seconds.
MarketDataEmitFrequency == 5

\* Keys of a Python dict: an int and a str are never equal.
IntKey(n) == [kind |-> "int", int |-> n, str |-> ""]
StrKey(str) == [kind |-> "str", int |-> 0, str |-> str]

\* del dict[key]
Del(map, key) == [k \in DOMAIN map \ {key} |-> map[k]]

NotBlocked == [kind |-> "none", tickerId |-> 0, instrument |-> ""]

ConnCall(op, ticker, raised) ==
    [op |-> op, tickerId |-> ticker, raised |-> raised]

TickerRequest(req, ticker, instrument) ==
    [req |-> req, tickerId |-> ticker, instrument |-> instrument]

\* Connection.__init__
InitCN ==
    /\ tickerId = 0
    /\ realtimeBarIDs = << >>
    /\ realtimeBarEvents = << >>
    /\ realtimeBarListeners = << >>
    /\ marketDataTickerIDs = << >>
    /\ marketDataEvents = << >>
    /\ marketDataListeners = << >>
    /\ marketData = [i \in ConnInstruments |-> << >>]
    /\ tickerRequests = << >>
    /\ blockedRequest = NotBlocked
    /\ delivered = << >>
    /\ subscribedRealtime = {}
    /\ eventOnHeld = ""
    /\ eventOnAbsent = ""
    /\ subscribedMarketData = {}
    /\ connCall = ConnCall("init", 0, FALSE)

\* The caller's thread can make a request: it is not waiting inside
\* requestHistoricalData or requestMarketScanner.
CallerFree == blockedRequest.kind = "none"

\* Connection.subscribeRealtimeBars(instrument, handler)
SubscribeRealtimeBars(instrument, handler) ==
    /\ CallerFree
    /\ IF instrument \notin DOMAIN realtimeBarIDs
       THEN /\ Len(tickerRequests) < MaxTickerRequests
            /\ tickerId' = tickerId + 1
            /\ realtimeBarIDs' = Put(realtimeBarIDs, instrument, tickerId)
            /\ tickerRequests' = Append(tickerRequests,
                    TickerRequest("reqRealTimeBars", tickerId, instrument))
            /\ realtimeBarEvents' = Put(realtimeBarEvents, instrument,
                                         EventSubscribe(<< >>, handler))
            /\ realtimeBarListeners' = Put(realtimeBarListeners, instrument, 1)
            /\ UNCHANGED eventOnHeld
       ELSE /\ realtimeBarListeners[instrument] < MaxListeners
            /\ \E outcome \in EventSubscribeOutcomes(realtimeBarEvents[instrument],
                                                      handler, eventOnHeld) :
                  /\ outcome = "registered" =>
                        Len(realtimeBarEvents[instrument]) < MaxListeners
                  /\ realtimeBarEvents' = [realtimeBarEvents EXCEPT ![instrument] =
                        IF outcome = "registered" THEN EventSubscribe(@, handler)
                        ELSE @]
                  /\ eventOnHeld' =
                        IF handler \in Range(realtimeBarEvents[instrument])
                        THEN outcome ELSE eventOnHeld
            /\ realtimeBarListeners' = [realtimeBarListeners EXCEPT ![instrument] = @ + 1]
            /\ UNCHANGED <<tickerId, realtimeBarIDs, tickerRequests>>
    /\ subscribedRealtime' = subscribedRealtime \cup {<<instrument, handler>>}
    /\ delivered' = << >>
    /\ connCall' = ConnCall("subscribeRealtimeBars", 0, FALSE)
    /\ UNCHANGED <<marketDataTickerIDs, marketDataEvents, marketDataListeners,
                   marketData, blockedRequest, subscribedMarketData, eventOnAbsent>>
    /\ UNCHANGED <<ibVars, ptVars, btVars, cmVars, acVars, lfVars, xtVars>>

\* Connection.unsubscribeRealtimeBars(instrument, handler)
UnsubscribeRealtimeBars(instrument, handler) ==
    /\ CallerFree
    /\ subscribedRealtime' = subscribedRealtime \ {<<instrument, handler>>}
    /\ delivered' = << >>
    /\ IF instrument \in DOMAIN realtimeBarIDs
       THEN \E outcome \in EventUnsubscribeOutcomes(realtimeBarEvents[instrument],
                                                    handler, eventOnAbsent) :
            /\ eventOnAbsent' = IF outcome = "removed" THEN eventOnAbsent ELSE outcome
            /\ IF outcome = "raised"
               THEN /\ connCall' = ConnCall("unsubscribeRealtimeBars", 0, TRUE)
                    /\ UNCHANGED <<realtimeBarIDs, realtimeBarEvents,
                                   realtimeBarListeners, tickerRequests>>
               ELSE /\ connCall' = ConnCall("unsubscribeRealtimeBars", 0, FALSE)
                    /\ realtimeBarEvents' = [realtimeBarEvents EXCEPT ![instrument] =
                                                EventUnsubscribe(@, handler)]
                    /\ realtimeBarListeners' =
                          [realtimeBarListeners EXCEPT ![instrument] = @ - 1]
                    /\ IF realtimeBarListeners[instrument] - 1 = 0
                       THEN /\ Len(tickerRequests) < MaxTickerRequests
                            /\ tickerRequests' = Append(tickerRequests,
                                   TickerRequest("cancelRealTimeBars",
                                                 realtimeBarIDs[instrument], instrument))
                            /\ realtimeBarIDs' = Del(realtimeBarIDs, instrument)
                       ELSE UNCHANGED <<realtimeBarIDs, tickerRequests>>
       ELSE \* Instrument was not subscribed, ignore
            /\ connCall' = ConnCall("unsubscribeRealtimeBars", 0, FALSE)
            /\ UNCHANGED <<realtimeBarIDs, realtimeBarEvents, realtimeBarListeners,
                           tickerRequests, eventOnAbsent>>
    /\ UNCHANGED <<tickerId, marketDataTickerIDs, marketDataEvents,
                   marketDataListeners, marketData, blockedRequest, eventOnHeld,
                   subscribedMarketData>>
    /\ UNCHANGED <<ibVars, ptVars, btVars, cmVars, acVars, lfVars, xtVars>>

\* Mutant of RealtimeBarInstrument: the ticker id of the callback is not
\* compared, any instrument with a realtime stream is taken.
RealtimeBarInstrument_AnyStream(ids, ticker) ==
    IF DOMAIN ids # {} THEN CHOOSE i \in DOMAIN ids : TRUE ELSE None

\* Connection.realtimeBar: look up the instrument's name based on its tickerId.
RealtimeBarInstrument(ids, ticker) ==
    IF \E i \in DOMAIN ids : ids[i] = ticker
    THEN CHOOSE i \in DOMAIN ids : ids[i] = ticker
    ELSE None

\* Connection.realtimeBar(tickerId, ...) callback
RealtimeBar(ticker) ==
    LET instrument == RealtimeBarInstrument(realtimeBarIDs, ticker) IN
    /\ delivered' = IF instrument # None
                    THEN EventEmit(realtimeBarEvents[instrument], instrument)
                    ELSE << >>
    /\ connCall' = ConnCall("realtimeBar", ticker, FALSE)
    /\ UNCHANGED <<tickerId, realtimeBarIDs, realtimeBarEvents, realtimeBarListeners,
                   marketDataTickerIDs, marketDataEvents, marketDataListeners,
                   marketData, tickerRequests, blockedRequest,
                   subscribedRealtime, eventVars, subscribedMarketData>>
    /\ UNCHANGED <<ibVars, ptVars, btVars, cmVars, acVars, lfVars, xtVars>>

\* Connection.subscribeMarketBars: is the instrument among the values of
\* __marketDataTickerIDs.
MarketDataFound(ids, instrument) == \E k \in DOMAIN ids : ids[k] = instrument

\* Connection.subscribeMarketBars(instrument, handler)
SubscribeMarketBars(instrument, handler) ==
    /\ CallerFree
    /\ IF ~MarketDataFound(marketDataTickerIDs, instrument)
       THEN /\ Len(tickerRequests) < MaxTickerRequests
            /\ tickerId' = tickerId + 1
            /\ marketDataTickerIDs' = Put(marketDataTickerIDs, IntKey(tickerId), instrument)
            /\ tickerRequests' = Append(tickerRequests,
                    TickerRequest("reqMktData", tickerId, instrument))
            /\ marketDataEvents' = Put(marketDataEvents, instrument,
                                        EventSubscribe(<< >>, handler))
            /\ marketDataListeners' = Put(marketDataListeners, instrument, 1)
            /\ UNCHANGED eventOnHeld
       ELSE /\ marketDataListeners[instrument] < MaxListeners
            /\ \E outcome \in EventSubscribeOutcomes(marketDataEvents[instrument],
                                                      handler, eventOnHeld) :
                  /\ outcome = "registered" =>
                        Len(marketDataEvents[instrument]) < MaxListeners
                  /\ marketDataEvents' = [marketDataEvents EXCEPT ![instrument] =
                        IF outcome = "registered" THEN EventSubscribe(@, handler)
                        ELSE @]
                  /\ eventOnHeld' =
                        IF handler \in Range(marketDataEvents[instrument])
                        THEN outcome ELSE eventOnHeld
            /\ marketDataListeners' = [marketDataListeners EXCEPT ![instrument] = @ + 1]
            /\ UNCHANGED <<tickerId, marketDataTickerIDs, tickerRequests>>
    /\ subscribedMarketData' = subscribedMarketData \cup {<<instrument, handler>>}
    /\ delivered' = << >>
    /\ connCall' = ConnCall("subscribeMarketBars", 0, FALSE)
    /\ UNCHANGED <<realtimeBarIDs, realtimeBarEvents, realtimeBarListeners,
                   marketData, blockedRequest, subscribedRealtime, eventOnAbsent>>
    /\ UNCHANGED <<ibVars, ptVars, btVars, cmVars, acVars, lfVars, xtVars>>

\* Connection.unsubscribeMarketData(instrument, handler).  The dict is keyed
\* by ticker id (subscribeMarketBars), and the instrument is looked up among
\* its keys.
UnsubscribeMarketData(instrument, handler) ==
    /\ CallerFree
    /\ subscribedMarketData' = subscribedMarketData \ {<<instrument, handler>>}
    /\ delivered' = << >>
    /\ IF StrKey(instrument) \in DOMAIN marketDataTickerIDs
       THEN \E outcome \in EventUnsubscribeOutcomes(marketDataEvents[instrument],
                                                    handler, eventOnAbsent) :
            /\ eventOnAbsent' = IF outcome = "removed" THEN eventOnAbsent ELSE outcome
            /\ IF outcome = "raised"
               THEN /\ connCall' = ConnCall("unsubscribeMarketData", 0, TRUE)
                    /\ UNCHANGED <<marketDataTickerIDs, marketDataEvents,
                                   marketDataListeners, tickerRequests>>
               ELSE /\ connCall' = ConnCall("unsubscribeMarketData", 0, FALSE)
                    /\ marketDataEvents' = [marketDataEvents EXCEPT ![instrument] =
                                               EventUnsubscribe(@, handler)]
                    /\ marketDataListeners' = [marketDataListeners EXCEPT ![instrument] = @ - 1]
                    /\ IF marketDataListeners[instrument] - 1 = 0
                       THEN /\ Len(tickerRequests) < MaxTickerRequests
                            /\ tickerRequests' = Append(tickerRequests,
                                   TickerRequest("cancelMktData",
                                                 marketDataTickerIDs[StrKey(instrument)],
                                                 instrument))
                            /\ marketDataTickerIDs' = Del(marketDataTickerIDs, StrKey(instrument))
                       ELSE UNCHANGED <<marketDataTickerIDs, tickerRequests>>
       ELSE \* Instrument was not subscribed, ignore
            /\ connCall' = ConnCall("unsubscribeMarketData", 0, FALSE)
            /\ UNCHANGED <<marketDataTickerIDs, marketDataEvents, marketDataListeners,
                           tickerRequests, eventOnAbsent>>
    /\ UNCHANGED <<tickerId, realtimeBarIDs, realtimeBarEvents, realtimeBarListeners,
                   marketData, blockedRequest, subscribedRealtime, eventOnHeld>>
    /\ UNCHANGED <<ibVars, ptVars, btVars, cmVars, acVars, lfVars, xtVars>>

\* The number of RTVolume ticks buffered, over all instruments.
RECURSIVE BufferedTicks(_, _)
BufferedTicks(buffers, instruments) ==
    IF instruments = {} THEN 0
    ELSE LET i == CHOOSE x \in instruments : TRUE
         IN  Len(buffers[i]) + BufferedTicks(buffers, instruments \ {i})

\* Connection.__processTick: are the buffered RTVolume ticks emitted as a bar.
EmitsTicks(ticks) ==
    /\ Len(ticks) > 2
    /\ ticks[Len(ticks)] - ticks[1] >= MarketDataEmitFrequency

\* Connection.tickString(tickerId, 48, value): an RTVolume tick with a last
\* trade price and this last trade time.  TWS reports the trades of an
\* instrument in the order of their times.
TickString(ticker, lastTradeTime) ==
    /\ IF IntKey(ticker) \notin DOMAIN marketDataTickerIDs
       THEN \* KeyError
            /\ connCall' = ConnCall("tickString", 0, TRUE)
            /\ delivered' = << >>
            /\ UNCHANGED marketData
       ELSE LET instr == marketDataTickerIDs[IntKey(ticker)]
                ticks == Append(marketData[instr], lastTradeTime)
            IN  /\ BufferedTicks(marketData, ConnInstruments) < MaxTicks
                /\ IF marketData[instr] = << >> THEN TRUE
                   ELSE marketData[instr][Len(marketData[instr])] <= lastTradeTime
                /\ connCall' = ConnCall("tickString", 0, FALSE)
                /\ IF EmitsTicks(ticks)
                   THEN /\ marketData' = [marketData EXCEPT ![instr] = << >>]
                        /\ delivered' = EventEmit(marketDataEvents[instr], instr)
                   ELSE /\ marketData' = [marketData EXCEPT ![instr] = ticks]
                        /\ delivered' = << >>
    /\ UNCHANGED <<tickerId, realtimeBarIDs, realtimeBarEvents, realtimeBarListeners,
                   marketDataTickerIDs, marketDataEvents, marketDataListeners,
                   tickerRequests, blockedRequest, subscribedRealtime, eventVars,
                   subscribedMarketData>>
    /\ UNCHANGED <<ibVars, ptVars, btVars, cmVars, acVars, lfVars, xtVars>>

\* The part of the Connection that the blocking requests leave alone.
StreamsUnchanged ==
    UNCHANGED <<realtimeBarIDs, realtimeBarEvents, realtimeBarListeners,
                marketDataTickerIDs, marketDataEvents, marketDataListeners,
                marketData, subscribedRealtime, eventVars, subscribedMarketData>>

\* Connection.requestHistoricalData(instrument, ...) up to its wait for the
\* result.
RequestHistoricalData(instrument) ==
    /\ CallerFree
    /\ Len(tickerRequests) < MaxTickerRequests
    /\ tickerId' = tickerId + 1
    /\ tickerRequests' = Append(tickerRequests,
            TickerRequest("reqHistoricalData", tickerId, instrument))
    /\ blockedRequest' = [kind |-> "historical", tickerId |-> tickerId,
                          instrument |-> instrument]
    /\ delivered' = << >>
    /\ connCall' = ConnCall("requestHistoricalData", 0, FALSE)
    /\ StreamsUnchanged
    /\ UNCHANGED <<ibVars, ptVars, btVars, cmVars, acVars, lfVars, xtVars>>

\* Mutant of RetryTickerId: the retry reuses the ticker id of the request.
RetryTickerId_Reused(current, next) == current

\* requestHistoricalData after a pacing violation: the ticker id of the
\* reissued request comes from __getNextTickerId.
RetryTickerId(current, next) == next

\* Connection.error(tickerId, 162, ...) for the request waited for: the
\* request is reissued.
HistoricalDataPacingRetry ==
    LET ticker == RetryTickerId(blockedRequest.tickerId, tickerId) IN
    /\ blockedRequest.kind = "historical"
    /\ Len(tickerRequests) < MaxTickerRequests
    /\ tickerId' = tickerId + 1
    /\ tickerRequests' = Append(tickerRequests,
            TickerRequest("reqHistoricalData", ticker, blockedRequest.instrument))
    /\ blockedRequest' = [blockedRequest EXCEPT !.tickerId = ticker]
    /\ delivered' = << >>
    /\ connCall' = ConnCall("error162", 0, FALSE)
    /\ StreamsUnchanged
    /\ UNCHANGED <<ibVars, ptVars, btVars, cmVars, acVars, lfVars, xtVars>>

\* requestHistoricalData returns: the data is finished, or another error
\* was reported for the request.
HistoricalDataReturns ==
    /\ blockedRequest.kind = "historical"
    /\ blockedRequest' = NotBlocked
    /\ delivered' = << >>
    /\ connCall' = ConnCall("historicalDataReturns", 0, FALSE)
    /\ UNCHANGED <<tickerId, tickerRequests>>
    /\ StreamsUnchanged
    /\ UNCHANGED <<ibVars, ptVars, btVars, cmVars, acVars, lfVars, xtVars>>

\* Connection.requestMarketScanner(...) up to its wait for scannerDataEnd.
RequestMarketScanner ==
    /\ CallerFree
    /\ Len(tickerRequests) < MaxTickerRequests
    /\ tickerId' = tickerId + 1
    /\ tickerRequests' = Append(tickerRequests,
            TickerRequest("reqScannerSubscription", tickerId, ""))
    /\ blockedRequest' = [kind |-> "scanner", tickerId |-> tickerId, instrument |-> ""]
    /\ delivered' = << >>
    /\ connCall' = ConnCall("requestMarketScanner", 0, FALSE)
    /\ StreamsUnchanged
    /\ UNCHANGED <<ibVars, ptVars, btVars, cmVars, acVars, lfVars, xtVars>>

\* scannerDataEnd wakes requestMarketScanner, which cancels the subscription
\* and returns.
MarketScannerReturns ==
    /\ blockedRequest.kind = "scanner"
    /\ Len(tickerRequests) < MaxTickerRequests
    /\ tickerRequests' = Append(tickerRequests,
            TickerRequest("cancelScannerSubscription", blockedRequest.tickerId, ""))
    /\ blockedRequest' = NotBlocked
    /\ delivered' = << >>
    /\ connCall' = ConnCall("marketScannerReturns", 0, FALSE)
    /\ UNCHANGED tickerId
    /\ StreamsUnchanged
    /\ UNCHANGED <<ibVars, ptVars, btVars, cmVars, acVars, lfVars, xtVars>>

\* Every request of the Connection that carries a ticker id.  Which handler
\* subscribes has no part in the choice of a ticker id.
NextTickerIds ==
    \/ \E instrument \in ConnInstruments, handler \in {"h1"} :
          \/ SubscribeRealtimeBars(instrument, handler)
          \/ UnsubscribeRealtimeBars(instrument, handler)
          \/ SubscribeMarketBars(instrument, handler)
    \/ \E instrument \in ConnInstruments : RequestHistoricalData(instrument)
    \/ HistoricalDataPacingRetry
    \/ HistoricalDataReturns
    \/ RequestMarketScanner
    \/ MarketScannerReturns

\* The realtime bar streams.
NextRealtimeBars ==
    \/ \E instrument \in ConnInstruments, handler \in ConnHandlers :
          \/ SubscribeRealtimeBars(instrument, handler)
          \/ UnsubscribeRealtimeBars(instrument, handler)
    \/ \E ticker \in TwsTickerIds : RealtimeBar(ticker)

\* The market data streams.
NextMarketData ==
    \/ \E instrument \in ConnInstruments, handler \in ConnHandlers :
          \/ SubscribeMarketBars(instrument, handler)
          \/ UnsubscribeMarketData(instrument, handler)
    \/ \E ticker \in TwsTickerIds, lastTradeTime \in TickTimes :
          TickString(ticker, lastTradeTime)

-----------------------------------------------------------------------------
(* Part VI : claims *)

\* The requests that open a stream or a query under a ticker id.
TickerIdRequests ==
    {"reqRealTimeBars", "reqMktData", "reqHistoricalData", "reqScannerSubscription"}

\* C17: no two requests of the Connection that open a realtime-bar stream, a
\* market-data stream, a historical-data query (reissued after a pacing
\* violation or not) or a market scanner carry the same ticker id.
C17_TickerIdsUnique ==
    \A j, k \in DOMAIN tickerRequests :
        (/\ j < k
         /\ tickerRequests[j].req \in TickerIdRequests
         /\ tickerRequests[k].req \in TickerIdRequests)
        => tickerRequests[j].tickerId # tickerRequests[k].tickerId

\* A historical-data request was reissued after a pacing violation while a
\* stream of another kind had been requested too.
C17_Witness ==
    /\ connCall.op = "error162"
    /\ Cardinality({k \in DOMAIN tickerRequests :
                       tickerRequests[k].req = "reqHistoricalData"}) >= 2
    /\ \E k \in DOMAIN tickerRequests :
          tickerRequests[k].req \in {"reqRealTimeBars", "reqMktData"}

\* The number of calls of the handler with a bar of the instrument among
\* the calls a callback made.
Calls(deliveries, instrument, handler) ==
    Cardinality({k \in DOMAIN deliveries :
                    deliveries[k] = [handler |-> handler, instrument |-> instrument]})

\* An Event was given a handler for which its effect is not stated:
\* subscribe with a handler it held, or unsubscribe with one it did not hold.
UnstatedEventCall == eventOnHeld # "" \/ eventOnAbsent # ""

\* The callback just made is a realtimeBar callback, and no Event was given
\* a handler for which its effect is not stated.
RealtimeBarCallback ==
    /\ connCall.op = "realtimeBar"
    /\ ~UnstatedEventCall

\* The callback carries the ticker id of the instrument's stream.
CarriesStreamOf(i) ==
    /\ i \in DOMAIN realtimeBarIDs
    /\ realtimeBarIDs[i] = connCall.tickerId

\* C18: a realtimeBar callback calls a handler exactly once with the bar of
\* an instrument when the handler is subscribed to the instrument and the
\* callback carries the ticker id of the instrument's stream, and it calls
\* no handler after an unsubscribeRealtimeBars call for it, nor any handler
\* for another ticker id, that of a cancelled stream included.  Stated for
\* the call sequences in which the Event is given no handler for which its
\* effect is not stated; beyond them the outcome rests on what
\* observer.Event does.
C18_RealtimeBarDelivery ==
    RealtimeBarCallback =>
        \A i \in ConnInstruments, h \in ConnHandlers :
            Calls(delivered, i, h) =
                IF <<i, h>> \in subscribedRealtime /\ CarriesStreamOf(i)
                THEN 1 ELSE 0

\* A realtimeBar callback called exactly one handler, once, with the bar of
\* an instrument to which the other handler is not subscribed, after an
\* earlier stream had been cancelled with its last unsubscription.
C18_Witness ==
    /\ RealtimeBarCallback
    /\ \E k \in DOMAIN tickerRequests : tickerRequests[k].req = "cancelRealTimeBars"
    /\ \E i \in ConnInstruments, h \in ConnHandlers :
          /\ CarriesStreamOf(i)
          /\ <<i, h>> \in subscribedRealtime
          /\ delivered = << [handler |-> h, instrument |-> i] >>

\* The request at position k of the log cancels a realtime stream that was
\* requested before and not cancelled since.
CancelsActiveStream(log, k) ==
    \E j \in 1 .. (k - 1) :
        /\ log[j].req = "reqRealTimeBars"
        /\ log[j].tickerId = log[k].tickerId
        /\ \A m \in (j + 1) .. (k - 1) :
              ~(log[m].req = "cancelRealTimeBars" /\ log[m].tickerId = log[k].tickerId)

\* C19: the realtime stream of an instrument is active exactly when at least
\* one handler is subscribed to the instrument, and cancelRealTimeBars is
\* only sent for the ticker id of an active stream.  Stated for the call
\* sequences in which the Event is given no handler for which its effect is
\* not stated; beyond them the outcome rests on what observer.Event does.
C19_StreamIffSubscribed ==
    ~UnstatedEventCall =>
        /\ \A i \in ConnInstruments :
              (i \in DOMAIN realtimeBarIDs)
                  <=> (\E h \in ConnHandlers : <<i, h>> \in subscribedRealtime)
        /\ \A k \in DOMAIN tickerRequests :
              tickerRequests[k].req = "cancelRealTimeBars"
                  => CancelsActiveStream(tickerRequests, k)

\* The market data request at position k of the log has not been cancelled.
MarketDataOpen(log, k) ==
    /\ log[k].req = "reqMktData"
    /\ \A m \in (k + 1) .. Len(log) :
          ~(log[m].req = "cancelMktData" /\ log[m].tickerId = log[k].tickerId)

\* C20: after unsubscribeMarketData(instrument, handler) the handler is
\* called with no further market-data bar of the instrument, and when the
\* last handler of the instrument has unsubscribed, cancelMktData was sent
\* with the ticker id of the instrument's request.
C20_UnsubscribeMarketData ==
    /\ connCall.op = "tickString" =>
          \A k \in DOMAIN delivered :
              <<delivered[k].instrument, delivered[k].handler>> \in subscribedMarketData
    /\ \A k \in DOMAIN tickerRequests :
          MarketDataOpen(tickerRequests, k) =>
              \E h \in ConnHandlers :
                  <<tickerRequests[k].instrument, h>> \in subscribedMarketData

-----------------------------------------------------------------------------
(* Part VII : collections.OrderedDict, as cache.py uses it.  A dict is the  *)
(* sequence of its entries in iteration order.                             *)

CacheKeys == {"a", "b", "c"}
CacheValues == {1, 2}
CacheSizes == 0 .. MaxCacheSize

Entry(key, value) == [key |-> key, value |-> value]

\* OrderedDict.keys()
Keys(data) == [i \in DOMAIN data |-> data[i].key]

\* key in OrderedDict
HasKey(data, key) == \E i \in DOMAIN data : data[i].key = key

\* OrderedDict[key]
ValueOf(data, key) == data[CHOOSE i \in DOMAIN data : data[i].key = key].value

\* OrderedDict.__setitem__: a new key goes to the end, a key already present
\* keeps its place.
OrderedDictSet(data, key, value) ==
    IF HasKey(data, key)
    THEN [i \in DOMAIN data |-> IF data[i].key = key THEN Entry(key, value) ELSE data[i]]
    ELSE Append(data, Entry(key, value))

\* OrderedDict.pop(key), for a key that is present
OrderedDictPop(data, key) == SelectSeq(data, LAMBDA e : e.key # key)

-----------------------------------------------------------------------------
(* Part VII : BoundedOrderedDict *)

\* Mutant of CheckLen: popitem(last=True), the newest entry is dropped.
RECURSIVE CheckLen_PopsNewest(_, _)
CheckLen_PopsNewest(size, data) ==
    IF size # 0 /\ Len(data) > size
    THEN CheckLen_PopsNewest(size, SubSeq(data, 1, Len(data) - 1))
    ELSE data

\* BoundedOrderedDict._checklen
RECURSIVE CheckLen(_, _)
CheckLen(size, data) ==
    IF size # 0 /\ Len(data) > size
    THEN CheckLen(size, Tail(data))
    ELSE data

\* BoundedOrderedDict.__setitem__
BoundedSet(size, data, key, value) ==
    CheckLen(size, OrderedDictSet(data, key, value))

\* BoundedOrderedDict.__init__(size, items): OrderedDict.__init__ stores the
\* items one by one through __setitem__, then _checklen runs once more.
RECURSIVE BoundedInit(_, _, _)
BoundedInit(size, data, items) ==
    IF items = << >> THEN CheckLen(size, data)
    ELSE BoundedInit(size, BoundedSet(size, data, Head(items).key, Head(items).value),
                     Tail(items))

\* The item lists a BoundedOrderedDict is constructed with.
InitialItems ==
    {<< >>,
     <<Entry("a", 1)>>,
     <<Entry("a", 1), Entry("b", 1), Entry("c", 1)>>,
     <<Entry("b", 2), Entry("a", 1), Entry("b", 1)>>}

\* The frame of the operations on the caches.
CacheFrame ==
    UNCHANGED <<ibVars, ptVars, btVars, cmVars, acVars, lfVars, cnVars, gcVars,
                oeVars, hdVars, msVars, ltVars>>

BodCall(op, evicted) == [op |-> op, evicted |-> evicted]

LruCall(op, result) == [op |-> op, result |-> result]

\* Before any cache is constructed: BoundedOrderedDict(0) and LRUCache(0),
\* which are empty.
InitCH ==
    /\ bodSize = 0
    /\ bodData = << >>
    /\ bodCall = BodCall("init", FALSE)
    /\ lruSize = 0
    /\ lruData = << >>
    /\ lruUsed = << >>
    /\ lruCall = LruCall("init", "")

\* BoundedOrderedDict(size, items)
BodConstruct(size, items) ==
    /\ bodSize' = size
    /\ bodData' = BoundedInit(size, << >>, items)
    /\ bodCall' = BodCall("init", \E i \in DOMAIN items : ~HasKey(bodData', items[i].key))
    /\ UNCHANGED <<lruSize, lruData, lruUsed, lruCall>>
    /\ CacheFrame

\* BoundedOrderedDict.__setitem__(key, value)
BodSetItem(key, value) ==
    /\ bodData' = BoundedSet(bodSize, bodData, key, value)
    /\ bodCall' = BodCall("setitem", \E i \in DOMAIN bodData : ~HasKey(bodData', bodData[i].key))
    /\ UNCHANGED <<bodSize, lruSize, lruData, lruUsed, lruCall>>
    /\ CacheFrame

NextBoundedDict ==
    \/ \E size \in CacheSizes, items \in InitialItems : BodConstruct(size, items)
    \/ \E key \in CacheKeys, value \in CacheValues : BodSetItem(key, value)

-----------------------------------------------------------------------------
(* Part VII : LRUCache *)

\* The key moved to the end of the keys used: it is now the most recently used.
MoveToEnd(keys, key) == Append(SelectSeq(keys, LAMBDA k : k # key), key)

\* Mutant of LruTouch: the entry read is left where it is.
LruTouch_NoMove(data, key) == data

\* LRUCache.__getitem__: pop and reinsert so that this item is now last.
LruTouch(data, key) ==
    OrderedDictSet(OrderedDictPop(data, key), key, ValueOf(data, key))

\* LRUCache.__setitem__
LruSet(size, data, key, value) ==
    LET kept == IF HasKey(data, key) THEN OrderedDictPop(data, key)
                ELSE IF size # 0 /\ Len(data) = size THEN Tail(data)
                ELSE data
    IN  OrderedDictSet(kept, key, value)

\* LRUCache.lru(): the first (key, value), or None (the empty sequence here).
lru(data) == IF Len(data) = 0 THEN << >> ELSE <<data[1]>>

\* LRUCache.keys()
keys(data) == Keys(data)

\* LRUCache(size)
LruConstruct(size) ==
    /\ lruSize' = size
    /\ lruData' = << >>
    /\ lruUsed' = << >>
    /\ lruCall' = LruCall("init", "")
    /\ UNCHANGED <<bodSize, bodData, bodCall>>
    /\ CacheFrame

\* LRUCache.__getitem__(key); OrderedDict.pop raises KeyError for a key
\* that is not cached.
LruGetItem(key) ==
    /\ IF HasKey(lruData, key)
       THEN /\ lruData' = LruTouch(lruData, key)
            /\ lruUsed' = MoveToEnd(lruUsed, key)
            /\ lruCall' = LruCall("getitem", "value")
       ELSE /\ lruCall' = LruCall("getitem", "KeyError")
            /\ UNCHANGED <<lruData, lruUsed>>
    /\ UNCHANGED <<lruSize, bodSize, bodData, bodCall>>
    /\ CacheFrame

\* LRUCache.__setitem__(key, value)
LruSetItem(key, value) ==
    /\ lruData' = LruSet(lruSize, lruData, key, value)
    /\ lruUsed' = MoveToEnd(lruUsed, key)
    /\ lruCall' = LruCall("setitem",
                          IF Len(lruData') > Len(lruData) THEN "added"
                          ELSE IF HasKey(lruData, key) THEN "replaced"
                          ELSE "evicted")
    /\ UNCHANGED <<lruSize, bodSize, bodData, bodCall>>
    /\ CacheFrame

\* key in cache (LRUCache.__contains__)
LruContains(key) ==
    /\ lruCall' = LruCall("contains", IF HasKey(lruData, key) THEN "True" ELSE "False")
    /\ UNCHANGED <<lruSize, lruData, lruUsed, bodSize, bodData, bodCall>>
    /\ CacheFrame

NextLRUCache ==
    \/ \E size \in CacheSizes : LruConstruct(size)
    \/ \E key \in CacheKeys : LruGetItem(key)
    \/ \E key \in CacheKeys, value \in CacheValues : LruSetItem(key, value)
    \/ \E key \in CacheKeys : LruContains(key)

-----------------------------------------------------------------------------
(* Part VIII : Connection.getCash in the strategy's thread and the          *)
(* updateAccountValue callback in the TWS reader thread.  Both take         *)
(* Connection.__accUpdateLock, a threading.Condition; each step below is    *)
(* one statement, or one run of statements made under the lock.             *)

\* cash = None
NoCash == -1

NoUpdate == [key |-> "", value |-> "", currency |-> "", accountName |-> ""]

GcFrame ==
    UNCHANGED <<ibVars, ptVars, btVars, cmVars, lfVars, cnVars, chVars, oeVars,
                hdVars, msVars, ltVars>>

InitGC ==
    /\ gcPc = "idle"
    /\ gcCash = NoCash
    /\ accLock = "free"
    /\ cbPc = "idle"
    /\ cbArgs = NoUpdate
    /\ gcUpdates = 0

\* Connection.__init__: a new Connection has no account values and has not
\* subscribed to the account updates.
NewConnection ==
    /\ gcPc = "idle"
    /\ cbPc = "idle"
    /\ accountValues' = << >>
    /\ accountUpdatesSubscribed' = FALSE
    /\ accountCall' = AccountCall("Connection", 0, FALSE, 0)
    /\ gcCash' = NoCash
    /\ gcUpdates' = 0
    /\ UNCHANGED <<gcPc, accLock, cbPc, cbArgs>>
    /\ GcFrame

\* getCash is called: requestAccountUpdate() subscribes to the account updates
\* unless that was done, and cash = None.
GcCall ==
    /\ gcPc = "idle"
    /\ accountUpdatesSubscribed' = TRUE
    /\ gcCash' = NoCash
    /\ gcPc' = "acquire"
    /\ accountCall' = AccountCall("Connection.getCash called", 0, FALSE, 0)
    /\ UNCHANGED <<accountValues, accLock, cbPc, cbArgs, gcUpdates>>
    /\ GcFrame

\* __accUpdateLock.acquire(), and the re-acquisition that ends wait().
GcAcquire ==
    /\ gcPc \in {"acquire", "notified"}
    /\ accLock = "free"
    /\ accLock' = "caller"
    /\ gcPc' = "check"
    /\ UNCHANGED <<acVars, gcCash, cbPc, cbArgs, gcUpdates>>
    /\ GcFrame

\* One pass of the loop: the lookup of TotalCashBalance succeeds and the loop
\* ends, or it raises KeyError and the thread waits, which releases the lock.
GcCheck ==
    /\ gcPc = "check"
    /\ IF HasCash(accountValues)
       THEN /\ gcCash' = getCash(accountValues)
            /\ gcPc' = "read"
            /\ UNCHANGED accLock
       ELSE /\ gcPc' = "waiting"
            /\ accLock' = "free"
            /\ UNCHANGED gcCash
    /\ UNCHANGED <<acVars, cbPc, cbArgs, gcUpdates>>
    /\ GcFrame

\* __accUpdateLock.release()
GcRelease ==
    /\ gcPc = "read"
    /\ accLock' = "free"
    /\ gcPc' = "released"
    /\ UNCHANGED <<acVars, gcCash, cbPc, cbArgs, gcUpdates>>
    /\ GcFrame

\* return cash
GcReturn ==
    /\ gcPc = "released"
    /\ gcPc' = "idle"
    /\ accountCall' = AccountCall("Connection.getCash", 0, FALSE, gcCash)
    /\ UNCHANGED <<accountValues, accountUpdatesSubscribed, gcCash, accLock,
                   cbPc, cbArgs, gcUpdates>>
    /\ GcFrame

\* TWS calls updateAccountValue, which it does only after reqAccountUpdates;
\* the callback acquires the lock.
CbAcquire(key, value, currency, accountName) ==
    /\ accountUpdatesSubscribed
    /\ gcUpdates < MaxUpdates
    /\ cbPc = "idle"
    /\ accLock = "free"
    /\ accLock' = "callback"
    /\ cbPc' = "locked"
    /\ cbArgs' = [key |-> key, value |-> value, currency |-> currency,
                  accountName |-> accountName]
    /\ gcUpdates' = gcUpdates + 1
    /\ UNCHANGED <<acVars, gcPc, gcCash>>
    /\ GcFrame

\* Mutant of Notify: the notification is lost.
Notify_Lost(pc) == pc

\* __accUpdateLock.notify(): a thread waiting on the condition is woken; it
\* runs again once it has re-acquired the lock.
Notify(pc) == IF pc = "waiting" THEN "notified" ELSE pc

\* The value is stored and the waiting thread is notified.
CbStore ==
    /\ cbPc = "locked"
    /\ accountValues' =
           Put(accountValues,
               <<cbArgs.accountName, cbArgs.currency, cbArgs.key>>, cbArgs.value)
    /\ gcPc' = Notify(gcPc)
    /\ cbPc' = "stored"
    /\ UNCHANGED <<accountUpdatesSubscribed, accountCall, gcCash, accLock,
                   cbArgs, gcUpdates>>
    /\ GcFrame

\* __accUpdateLock.release(), and the callback returns.
CbRelease ==
    /\ cbPc = "stored"
    /\ accLock' = "free"
    /\ cbPc' = "idle"
    /\ cbArgs' = NoUpdate
    /\ UNCHANGED <<acVars, gcPc, gcCash, gcUpdates>>
    /\ GcFrame

NextGetCash ==
    \/ NewConnection
    \/ GcCall
    \/ GcAcquire
    \/ GcCheck
    \/ GcRelease
    \/ GcReturn
    \/ \E key \in AccountKeys, value \in AccountValueStrings,
          accountName \in AccountNames :
            CbAcquire(key, value, "USD", accountName)
    \/ CbStore
    \/ CbRelease

-----------------------------------------------------------------------------
(* Part IX : the broker's order-updated event.  Connection.orderStatus runs  *)
(* in the TWS reader thread and emits to Broker.__orderUpdate, which changes *)
(* the order and emits the broker's order-updated event; emit calls the      *)
(* subscribed handlers one after the other and returns.  The steps below are *)
(* the start of the callback, each handler call, and the callback's return.  *)

\* The statuses TWS reports here: one that changes nothing and the two that
\* can change an order.
OrderEventStatuses == {"Submitted", "Cancelled", "Filled"}

\* Handlers a strategy or an analyzer subscribes.
OrderHandlers == {"h1", "h2"}

NoEmit == [calls |-> << >>, made |-> 0, active |-> FALSE]

OeFrame ==
    UNCHANGED <<ptVars, btVars, cmVars, acVars, lfVars, cnVars, chVars, gcVars,
                hdVars, msVars, ltVars>>

InitOE ==
    /\ oeHandlers = << >>
    /\ oeEmit = NoEmit
    /\ oeLog = << >>

\* Mutant of OrderUpdatedEmit: the handlers are called last subscribed first.
OrderUpdatedEmit_Reversed(handlers, order, state) ==
    [i \in DOMAIN handlers |->
        [handler |-> handlers[Len(handlers) + 1 - i], order |-> order,
         state |-> state]]

\* getOrderUpdatedEvent().emit(self, order): the handler calls emit makes, in
\* registration order.
OrderUpdatedEmit(handlers, order, state) ==
    [i \in DOMAIN handlers |->
        [handler |-> handlers[i], order |-> order, state |-> state]]

\* broker.getOrderUpdatedEvent().subscribe(handler), made while no emission is
\* in progress.  A subscriber makes the call once, when it is attached to the
\* strategy (plotter.py:284).
SubscribeOrderUpdated(handler) ==
    /\ ~oeEmit.active
    /\ handler \notin Range(oeHandlers)
    /\ oeHandlers' = EventSubscribe(oeHandlers, handler)
    /\ UNCHANGED <<oeEmit, oeLog, ibVars>>
    /\ OeFrame

\* The strategy creates market orders and places them; nothing is emitted.
StrategyOrders ==
    /\ \/ CreateOrder("MARKET", "BUY", FALSE)
       \/ \E o \in 1 .. MaxOrders : PlaceOrder(o)
    /\ UNCHANGED oeVars
    /\ OeFrame

\* TWS calls Connection.orderStatus; the reader thread makes one callback at a
\* time.  Broker.__orderUpdate changes the order and, when it emits, emit
\* starts over the handlers subscribed.
OrderStatusCalled(orderId, status, filled, remaining, avgFillPrice) ==
    /\ ~oeEmit.active
    /\ OrderStatus(orderId, status, filled, remaining, avgFillPrice)
    /\ IF Len(orderEvents') > Len(orderEvents)
       THEN LET ev == orderEvents'[Len(orderEvents')] IN
            /\ oeEmit' = [calls |-> OrderUpdatedEmit(oeHandlers, ev.order, ev.state),
                          made |-> 0, active |-> TRUE]
            /\ oeLog' = Append(oeLog,
                   [order |-> ev.order, state |-> ev.state,
                    subscribed |-> oeHandlers, called |-> << >>,
                    returned |-> FALSE])
       ELSE UNCHANGED <<oeEmit, oeLog>>
    /\ UNCHANGED oeHandlers
    /\ OeFrame

\* emit calls the next handler, which returns.
HandlerCalled ==
    /\ oeEmit.active
    /\ oeEmit.made < Len(oeEmit.calls)
    /\ oeEmit' = [oeEmit EXCEPT !.made = @ + 1]
    /\ oeLog' = [oeLog EXCEPT ![Len(oeLog)].called =
                     Append(@, oeEmit.calls[oeEmit.made + 1].handler)]
    /\ UNCHANGED <<oeHandlers, ibVars>>
    /\ OeFrame

\* emit has called every handler: __orderUpdate and orderStatus return.
OrderStatusReturns ==
    /\ oeEmit.active
    /\ oeEmit.made = Len(oeEmit.calls)
    /\ oeEmit' = NoEmit
    /\ oeLog' = [oeLog EXCEPT ![Len(oeLog)].returned = TRUE]
    /\ UNCHANGED <<oeHandlers, ibVars>>
    /\ OeFrame

NextOrderEvents ==
    \/ \E handler \in OrderHandlers : SubscribeOrderUpdated(handler)
    \/ StrategyOrders
    \/ \E orderId \in TwsOrderIds, status \in OrderEventStatuses,
          remaining \in {0, 5} :
            OrderStatusCalled(orderId, status, 12 - remaining, remaining, 25)
    \/ HandlerCalled
    \/ OrderStatusReturns

-----------------------------------------------------------------------------
(* Part X : Connection.requestHistoricalData in the caller's thread, and the *)
(* historicalData and error callbacks in the TWS reader thread.  The reader  *)
(* thread makes one callback at a time.  TWS answers a reqHistoricalData     *)
(* with an error for its ticker id, or with bars followed by the 'finished'  *)
(* marker; messages with ticker id -1 may come at any time.                  *)

\* The value None of a key of Connection.__error.
NoneTicker == -2
NoneCode == 0

\* The ticker id of the messages that belong to no request.
NoTickerId == -1

PacingViolation == 162
NoSecurityDefinition == 200
FarmConnectionOk == 2104

\* Error codes TWS reports for a historical data request.
RequestErrorCodes == {PacingViolation, NoSecurityDefinition}

\* The bars TWS may deliver, each named by a number.
HistBars == {1, 2}

HistInstruments == {"XXX"}

\* clearError()
ClearedError == [tickerId |-> NoneTicker, errorCode |-> NoneCode]

HdCallRecord(result, data) == [result |-> result, data |-> data]

HdFrame ==
    UNCHANGED <<ibVars, ptVars, btVars, cmVars, acVars, lfVars, chVars, gcVars,
                oeVars, msVars, ltVars>>

\* Of the Connection's ticker-id state only __tickerId and the requests sent
\* take part.
HdStreams ==
    UNCHANGED <<realtimeBarIDs, realtimeBarEvents, realtimeBarListeners,
                marketDataTickerIDs, marketDataEvents, marketDataListeners,
                marketData, blockedRequest, delivered, subscribedRealtime, eventVars,
                subscribedMarketData, connCall>>

InitHD ==
    /\ hdPc = "idle"
    /\ hdTicker = NoneTicker
    /\ hdInstrument = ""
    /\ hdBuffer = << >>
    /\ hdReceived = FALSE
    /\ connError = ClearedError
    /\ errorPending = NoneCode
    /\ twsAnswer = "none"
    /\ hdDelivered = << >>
    /\ hdReported = NoneCode
    /\ hdMessages = 0
    /\ hdCall = HdCallRecord("", << >>)

\* Mutant of NewBuffer: the buffer of the request before is kept.
NewBuffer_Kept(buffer) == buffer

\* self.__historicalDataBuffer = []
NewBuffer(buffer) == << >>

\* requestHistoricalData up to the first test of the loop: clearError, a
\* ticker id from __getNextTickerId, an empty buffer, the flag reset, and the
\* request sent.  The reader thread may be inside error() meanwhile: the
\* error code it has yet to store goes to the dict clearError has bound.
HistoricalDataRequested(instrument) ==
    /\ hdPc = "idle"
    /\ Len(tickerRequests) < MaxTickerRequests
    /\ connError' = ClearedError
    /\ hdTicker' = tickerId
    /\ tickerId' = tickerId + 1
    /\ hdInstrument' = instrument
    /\ hdBuffer' = NewBuffer(hdBuffer)
    /\ hdReceived' = FALSE
    /\ tickerRequests' = Append(tickerRequests,
            TickerRequest("reqHistoricalData", tickerId, instrument))
    /\ twsAnswer' = "pending"
    /\ hdDelivered' = << >>
    /\ hdReported' = NoneCode
    /\ hdMessages' = 0
    /\ hdPc' = "test"
    /\ hdCall' = HdCallRecord("", << >>)
    /\ UNCHANGED errorPending
    /\ HdStreams
    /\ HdFrame

\* while not self.__historicalDataReceived
HdTest ==
    /\ hdPc = "test"
    /\ hdPc' = IF hdReceived THEN "copy" ELSE "acquire"
    /\ UNCHANGED <<hdTicker, hdInstrument, hdBuffer, hdReceived, connError,
                   errorPending, twsAnswer, hdDelivered, hdReported, hdMessages,
                   hdCall>>
    /\ UNCHANGED cnVars
    /\ HdFrame

\* __historicalDataLock.acquire(); wait(TIMEOUT) starts to wait.
HdWait ==
    /\ hdPc = "acquire"
    /\ hdPc' = "waiting"
    /\ UNCHANGED <<hdTicker, hdInstrument, hdBuffer, hdReceived, connError,
                   errorPending, twsAnswer, hdDelivered, hdReported, hdMessages,
                   hdCall>>
    /\ UNCHANGED cnVars
    /\ HdFrame

\* Mutant of WaitTimesOut: the wait has no timeout.
WaitTimesOut_Never == FALSE

\* wait(TIMEOUT) returns after TIMEOUT seconds when nothing notified it.
WaitTimesOut == TRUE

HdTimeout ==
    /\ hdPc = "waiting"
    /\ WaitTimesOut
    /\ hdPc' = "woken"
    /\ UNCHANGED <<hdTicker, hdInstrument, hdBuffer, hdReceived, connError,
                   errorPending, twsAnswer, hdDelivered, hdReported, hdMessages,
                   hdCall>>
    /\ UNCHANGED cnVars
    /\ HdFrame

\* What the loop does with the error it took from the slot.
\*   "continue" : the error is not one of this request
\*   "reissue"  : pacing violation, the request is sent again
\*   "give up"  : return None
ErrorOutcome(err, ticker) ==
    IF err.tickerId = NoneTicker \/ err.tickerId # ticker THEN "continue"
    ELSE IF err.errorCode = PacingViolation THEN "reissue"
    ELSE "give up"

\* release(); err = getError(); clearError(); and the branch taken on err.
\* getError returns the dict itself, so err holds what the dict holds when
\* clearError binds a new dict to the attribute.  After a pacing violation
\* the thread sleeps 30 seconds before it sends the request again.
HdInspect ==
    LET outcome == ErrorOutcome(connError, hdTicker) IN
    /\ hdPc = "woken"
    /\ connError' = ClearedError
    /\ hdReported' = NoneCode
    /\ CASE outcome = "continue" ->
              /\ hdPc' = "test"
              /\ UNCHANGED <<hdTicker, twsAnswer, hdCall, tickerId, tickerRequests>>
         [] outcome = "reissue" ->
              /\ hdPc' = "sleep"
              /\ UNCHANGED <<hdTicker, twsAnswer, hdCall, tickerId, tickerRequests>>
         [] OTHER ->
              /\ hdPc' = "idle"
              /\ hdCall' = HdCallRecord("None", << >>)
              /\ twsAnswer' = "none"
              /\ UNCHANGED <<hdTicker, tickerId, tickerRequests>>
    /\ UNCHANGED <<hdInstrument, hdBuffer, hdReceived, errorPending, hdDelivered,
                   hdMessages>>
    /\ HdStreams
    /\ HdFrame

\* sleep(30) is over: a ticker id from __getNextTickerId, and the request is
\* sent again.
HdReissue ==
    LET ticker == RetryTickerId(hdTicker, tickerId) IN
    /\ hdPc = "sleep"
    /\ Len(tickerRequests) < MaxTickerRequests
    /\ tickerId' = tickerId + 1
    /\ hdTicker' = ticker
    /\ tickerRequests' = Append(tickerRequests,
            TickerRequest("reqHistoricalData", ticker, hdInstrument))
    /\ twsAnswer' = "pending"
    /\ hdPc' = "test"
    /\ UNCHANGED <<hdInstrument, hdBuffer, hdReceived, connError, errorPending,
                   hdDelivered, hdReported, hdMessages, hdCall>>
    /\ HdStreams
    /\ HdFrame

\* historicalData = copy.copy(self.__historicalDataBuffer); return it.
HdCopy ==
    /\ hdPc = "copy"
    /\ hdPc' = "idle"
    /\ hdCall' = HdCallRecord("list", hdBuffer)
    /\ twsAnswer' = "none"
    /\ UNCHANGED <<hdTicker, hdInstrument, hdBuffer, hdReceived, connError,
                   errorPending, hdDelivered, hdReported, hdMessages>>
    /\ UNCHANGED cnVars
    /\ HdFrame

\* The reader thread is between two callbacks.
ReaderFree == errorPending = NoneCode

\* historicalData(tickerId, date, ...) with a bar: the bar is appended.
HistoricalDataBar(bar) ==
    /\ ReaderFree
    /\ twsAnswer \in {"pending", "bars"}
    /\ Len(hdDelivered) < MaxHistBars
    /\ hdBuffer' = Append(hdBuffer, bar)
    /\ hdDelivered' = Append(hdDelivered, bar)
    /\ twsAnswer' = "bars"
    /\ UNCHANGED <<hdPc, hdTicker, hdInstrument, hdReceived, connError,
                   errorPending, hdReported, hdMessages, hdCall>>
    /\ UNCHANGED cnVars
    /\ HdFrame

\* historicalData(tickerId, 'finished-...', ...): the flag is set and the
\* waiting thread is notified.
HistoricalDataFinished ==
    /\ ReaderFree
    /\ twsAnswer \in {"pending", "bars"}
    /\ hdReceived' = TRUE
    /\ hdPc' = IF hdPc = "waiting" THEN "woken" ELSE hdPc
    /\ twsAnswer' = "done"
    /\ UNCHANGED <<hdTicker, hdInstrument, hdBuffer, connError, errorPending,
                   hdDelivered, hdReported, hdMessages, hdCall>>
    /\ UNCHANGED cnVars
    /\ HdFrame

\* error(tickerId, errorCode, errorString) stores the ticker id in the dict
\* bound to __error.  TWS reports an error for the request instead of its
\* data, or sends a message with ticker id -1.
ErrorStoresTicker(ticker, errorCode) ==
    /\ ReaderFree
    /\ hdPc # "idle"
    /\ \/ /\ ticker = hdTicker
          /\ errorCode \in RequestErrorCodes
          /\ twsAnswer = "pending"
          /\ twsAnswer' = "done"
          /\ hdReported' = errorCode
          /\ UNCHANGED hdMessages
       \/ /\ ticker = NoTickerId
          /\ errorCode = FarmConnectionOk
          /\ hdMessages < MaxMessages
          /\ hdMessages' = hdMessages + 1
          /\ UNCHANGED <<twsAnswer, hdReported>>
    /\ connError' = [connError EXCEPT !.tickerId = ticker]
    /\ errorPending' = errorCode
    /\ UNCHANGED <<hdPc, hdTicker, hdInstrument, hdBuffer, hdReceived,
                   hdDelivered, hdCall>>
    /\ UNCHANGED cnVars
    /\ HdFrame

\* error(...) stores the error code in the dict then bound to __error, and
\* returns.
ErrorStoresCode ==
    /\ errorPending # NoneCode
    /\ connError' = [connError EXCEPT !.errorCode = errorPending]
    /\ errorPending' = NoneCode
    /\ UNCHANGED <<hdPc, hdTicker, hdInstrument, hdBuffer, hdReceived, twsAnswer,
                   hdDelivered, hdReported, hdMessages, hdCall>>
    /\ UNCHANGED cnVars
    /\ HdFrame

NextHistoricalData ==
    \/ \E instrument \in HistInstruments : HistoricalDataRequested(instrument)
    \/ HdTest
    \/ HdWait
    \/ HdTimeout
    \/ HdInspect
    \/ HdReissue
    \/ HdCopy
    \/ \E bar \in HistBars : HistoricalDataBar(bar)
    \/ HistoricalDataFinished
    \/ \E ticker \in {hdTicker, NoTickerId},
          errorCode \in RequestErrorCodes \cup {FarmConnectionOk} :
            ErrorStoresTicker(ticker, errorCode)
    \/ ErrorStoresCode

-----------------------------------------------------------------------------
(* Part XI : Connection.requestMarketScanner in the caller's thread, and the *)
(* scannerData and scannerDataEnd callbacks in the TWS reader thread.  TWS   *)
(* answers a reqScannerSubscription with rows followed by scannerDataEnd.    *)

\* The rows TWS may deliver, each named by its rank.
ScanRows == {1, 2}

MsFrame ==
    UNCHANGED <<ibVars, ptVars, btVars, cmVars, acVars, lfVars, chVars, gcVars,
                oeVars, hdVars, ltVars>>

InitMS ==
    /\ msPc = "idle"
    /\ msTicker = NoneTicker
    /\ msBuffer = << >>
    /\ twsScan = "none"
    /\ msRows = << >>
    /\ msCall = << >>

\* requestMarketScanner up to reqScannerSubscription: a ticker id from
\* __getNextTickerId and the subscription sent.
MarketScannerRequested ==
    /\ msPc = "idle"
    /\ tickerId < MaxScans
    /\ msTicker' = tickerId
    /\ tickerId' = tickerId + 1
    /\ tickerRequests' = Append(tickerRequests,
            TickerRequest("reqScannerSubscription", tickerId, ""))
    /\ twsScan' = "sending"
    /\ msRows' = << >>
    /\ msPc' = "acquire"
    /\ UNCHANGED <<msBuffer, msCall>>
    /\ HdStreams
    /\ MsFrame

\* __marketScannerLock.acquire(); wait() starts to wait.  The wait has no
\* timeout and tests no flag.
MsWait ==
    /\ msPc = "acquire"
    /\ msPc' = "waiting"
    /\ UNCHANGED <<msTicker, msBuffer, twsScan, msRows, msCall>>
    /\ UNCHANGED cnVars
    /\ MsFrame

\* The wait was notified: release(), cancelScannerSubscription, the buffer is
\* copied and emptied, and the copy is returned.
MsReturn ==
    /\ msPc = "woken"
    /\ tickerRequests' = Append(tickerRequests,
            TickerRequest("cancelScannerSubscription", msTicker, ""))
    /\ msCall' = <<msBuffer>>
    /\ msBuffer' = << >>
    /\ msPc' = "idle"
    /\ UNCHANGED <<msTicker, twsScan, msRows, tickerId>>
    /\ HdStreams
    /\ MsFrame

\* scannerData(reqId, rank, ...): the row is appended to the buffer.
ScannerData(row) ==
    /\ twsScan = "sending"
    /\ Len(msRows) < MaxScanRows
    /\ msBuffer' = Append(msBuffer, row)
    /\ msRows' = Append(msRows, row)
    /\ UNCHANGED <<msPc, msTicker, twsScan, msCall>>
    /\ UNCHANGED cnVars
    /\ MsFrame

\* scannerDataEnd(reqId): a thread waiting on the condition is notified.
ScannerDataEnd ==
    /\ twsScan = "sending"
    /\ twsScan' = "ended"
    /\ msPc' = IF msPc = "waiting" THEN "woken" ELSE msPc
    /\ UNCHANGED <<msTicker, msBuffer, msRows, msCall>>
    /\ UNCHANGED cnVars
    /\ MsFrame

NextMarketScanner ==
    \/ MarketScannerRequested
    \/ MsWait
    \/ MsReturn
    \/ \E row \in ScanRows : ScannerData(row)
    \/ ScannerDataEnd

-----------------------------------------------------------------------------
(* Part XII : Connection.connect, from the Connection's construction on *)

\* Error code of "Couldn't connect to TWS".
ConnectFail == 502

\* Requests of the Connection that send one message to TWS after connect()
\* and return.
RequestKinds == {"placeOrder", "cancelOrder"}

\* Requests whose call waits for TWS's answer after the message was sent.
WaitingRequestKinds == {"reqHistoricalData", "reqScannerSubscription"}

LcFrame ==
    UNCHANGED <<ibVars, ptVars, btVars, cmVars, acVars, lfVars, cnVars, chVars,
                gcVars, oeVars, hdVars, msVars, tkVars>>

\* Connection.__init__
InitLC ==
    /\ lcConnected = FALSE
    /\ lcSubscribed = FALSE
    /\ lcWire = << >>
    /\ lcCall = "init"
    /\ lcWaiting = "none"
    /\ lcListeners = [realtimeBars |-> 0, marketData |-> 0]

\* Connection.error(tickerId, 502): marks the connection disconnected and
\* raises IBConnectionException.
ErrorMarksDisconnected(isConnected, errorCode) ==
    IF errorCode = ConnectFail THEN FALSE ELSE isConnected

\* eConnect and what follows it in connect().  When TWS refuses the
\* connection the socket reports error 502 from inside eConnect: error()
\* raises, and the assignment after eConnect is not reached.
EConnect(accepted) ==
    IF accepted
    THEN [wire |-> <<"eConnect">>, connected |-> TRUE, raised |-> FALSE]
    ELSE [wire |-> <<"eConnect", "error502">>,
          connected |-> ErrorMarksDisconnected(TRUE, ConnectFail),
          raised |-> TRUE]

\* Connection.connect()
Connect(isConnected, accepted) ==
    IF ~isConnected THEN EConnect(accepted)
    ELSE [wire |-> << >>, connected |-> isConnected, raised |-> FALSE]

\* createOrder, cancelOrder: connect(), then the request is sent.
Request(kind, accepted) ==
    LET c == Connect(lcConnected, accepted)
    IN  /\ lcWire' = lcWire \o c.wire \o (IF c.raised THEN << >> ELSE <<kind>>)
        /\ Len(lcWire') <= MaxWire
        /\ lcConnected' = c.connected
        /\ lcCall' = IF c.raised THEN "IBConnectionException" ELSE kind
        /\ UNCHANGED <<lcSubscribed, lcWaiting, lcListeners>>
        /\ LcFrame

\* Calls that connect() and send nothing: connect() itself,
\* subscribeOrderUpdates, which registers the handler, and
\* unsubscribeMarketData, which looks the instrument up among the ticker ids
\* and finds nothing to cancel.
ConnectOnlyKinds == {"connect", "subscribeOrderUpdates", "unsubscribeMarketData"}

ConnectCalled(kind, accepted) ==
    LET c == Connect(lcConnected, accepted)
    IN  /\ lcWire' = lcWire \o c.wire
        /\ Len(lcWire') <= MaxWire
        /\ lcConnected' = c.connected
        /\ lcCall' = IF c.raised THEN "IBConnectionException" ELSE kind
        /\ UNCHANGED <<lcSubscribed, lcWaiting, lcListeners>>
        /\ LcFrame

\* subscribeRealtimeBars(instrument, handler) with a handler not yet
\* subscribed: connect(), then the stream is requested for the first handler
\* of the instrument and the listeners are counted.
LcSubscribeRealtimeBars(accepted) ==
    LET c == Connect(lcConnected, accepted)
        first == lcListeners.realtimeBars = 0
    IN  /\ ~c.raised => lcListeners.realtimeBars < MaxListeners
        /\ lcWire' = lcWire \o c.wire
                        \o (IF ~c.raised /\ first THEN <<"reqRealTimeBars">> ELSE << >>)
        /\ Len(lcWire') <= MaxWire
        /\ lcConnected' = c.connected
        /\ lcListeners' = IF c.raised THEN lcListeners
                          ELSE [lcListeners EXCEPT !.realtimeBars = @ + 1]
        /\ lcCall' = IF c.raised THEN "IBConnectionException"
                     ELSE "subscribeRealtimeBars"
        /\ UNCHANGED <<lcSubscribed, lcWaiting>>
        /\ LcFrame

\* unsubscribeRealtimeBars(instrument, handler) with a subscribed handler,
\* or for an instrument without a stream: connect(), then the stream is
\* cancelled with the last listener.
LcUnsubscribeRealtimeBars(accepted) ==
    LET c == Connect(lcConnected, accepted)
        streaming == lcListeners.realtimeBars > 0
        last == lcListeners.realtimeBars = 1
    IN  /\ lcWire' = lcWire \o c.wire
                        \o (IF ~c.raised /\ last THEN <<"cancelRealTimeBars">> ELSE << >>)
        /\ Len(lcWire') <= MaxWire
        /\ lcConnected' = c.connected
        /\ lcListeners' = IF ~c.raised /\ streaming
                          THEN [lcListeners EXCEPT !.realtimeBars = @ - 1]
                          ELSE lcListeners
        /\ lcCall' = IF c.raised THEN "IBConnectionException"
                     ELSE "unsubscribeRealtimeBars"
        /\ UNCHANGED <<lcSubscribed, lcWaiting>>
        /\ LcFrame

\* subscribeMarketBars(instrument, handler): connect(), then the market data
\* is requested unless the instrument is among the ticker ids' instruments.
LcSubscribeMarketBars(accepted) ==
    LET c == Connect(lcConnected, accepted)
        found == lcListeners.marketData > 0
    IN  /\ ~c.raised => lcListeners.marketData < MaxListeners
        /\ lcWire' = lcWire \o c.wire
                        \o (IF ~c.raised /\ ~found THEN <<"reqMktData">> ELSE << >>)
        /\ Len(lcWire') <= MaxWire
        /\ lcConnected' = c.connected
        /\ lcListeners' = IF c.raised THEN lcListeners
                          ELSE [lcListeners EXCEPT !.marketData = @ + 1]
        /\ lcCall' = IF c.raised THEN "IBConnectionException"
                     ELSE "subscribeMarketBars"
        /\ UNCHANGED <<lcSubscribed, lcWaiting>>
        /\ LcFrame

\* requestHistoricalData, requestMarketScanner up to their wait: connect(),
\* then the request is sent and the calling thread waits for the answer.
WaitingRequest(kind, accepted) ==
    LET c == Connect(lcConnected, accepted)
    IN  /\ lcWaiting = "none"
        /\ lcWire' = lcWire \o c.wire \o (IF c.raised THEN << >> ELSE <<kind>>)
        /\ Len(lcWire') <= MaxWire
        /\ lcConnected' = c.connected
        /\ lcCall' = IF c.raised THEN "IBConnectionException" ELSE kind
        /\ lcWaiting' = IF c.raised THEN "none" ELSE kind
        /\ UNCHANGED <<lcSubscribed, lcListeners>>
        /\ LcFrame

\* requestHistoricalData after a pacing violation and its sleep: the request
\* is sent again, and connect() is not called again.
HistoricalDataReissued ==
    /\ lcWaiting = "reqHistoricalData"
    /\ Len(lcWire) < MaxWire
    /\ lcWire' = Append(lcWire, "reqHistoricalData")
    /\ lcCall' = "reissued"
    /\ UNCHANGED <<lcConnected, lcSubscribed, lcWaiting, lcListeners>>
    /\ LcFrame

\* The waiting call returns.  requestMarketScanner cancels its subscription
\* first, and connect() is not called again.
WaitingRequestReturns ==
    /\ lcWaiting # "none"
    /\ Len(lcWire) < MaxWire
    /\ lcWire' = IF lcWaiting = "reqScannerSubscription"
                 THEN Append(lcWire, "cancelScannerSubscription")
                 ELSE lcWire
    /\ lcWaiting' = "none"
    /\ lcCall' = "returned"
    /\ UNCHANGED <<lcConnected, lcSubscribed, lcListeners>>
    /\ LcFrame

\* Connection.requestAccountUpdate()
RequestAccountUpdate(accepted) ==
    LET c == Connect(lcConnected, accepted)
        sends == ~c.raised /\ ~lcSubscribed
    IN  /\ lcWire' = lcWire \o c.wire
                        \o (IF sends THEN <<"reqAccountUpdates">> ELSE << >>)
        /\ Len(lcWire') <= MaxWire
        /\ lcConnected' = c.connected
        /\ lcSubscribed' = (lcSubscribed \/ sends)
        /\ UNCHANGED <<lcWaiting, lcListeners>>
        /\ lcCall' = IF c.raised THEN "IBConnectionException"
                     ELSE "requestAccountUpdate"
        /\ LcFrame

\* Connection.disconnect()
Disconnect ==
    /\ Len(lcWire) < MaxWire
    /\ lcWire' = IF lcConnected THEN Append(lcWire, "eDisconnect") ELSE lcWire
    /\ lcConnected' = FALSE
    /\ lcCall' = "disconnect"
    /\ UNCHANGED <<lcSubscribed, lcWaiting, lcListeners>>
    /\ LcFrame

\* Connection.error(-1, errorCode), called by the socket outside eConnect.
ErrorCalled(errorCode) ==
    /\ Len(lcWire) < MaxWire
    /\ lcWire' = IF errorCode = ConnectFail THEN Append(lcWire, "error502")
                 ELSE lcWire
    /\ lcConnected' = ErrorMarksDisconnected(lcConnected, errorCode)
    /\ lcCall' = IF errorCode = ConnectFail THEN "IBConnectionException"
                 ELSE "error"
    /\ UNCHANGED <<lcSubscribed, lcWaiting, lcListeners>>
    /\ LcFrame

NextConnect ==
    \/ \E kind \in RequestKinds, accepted \in BOOLEAN : Request(kind, accepted)
    \/ \E kind \in WaitingRequestKinds, accepted \in BOOLEAN :
          WaitingRequest(kind, accepted)
    \/ HistoricalDataReissued
    \/ WaitingRequestReturns
    \/ \E kind \in ConnectOnlyKinds, accepted \in BOOLEAN :
          ConnectCalled(kind, accepted)
    \/ \E accepted \in BOOLEAN : LcSubscribeRealtimeBars(accepted)
    \/ \E accepted \in BOOLEAN : LcUnsubscribeRealtimeBars(accepted)
    \/ \E accepted \in BOOLEAN : LcSubscribeMarketBars(accepted)
    \/ \E accepted \in BOOLEAN : RequestAccountUpdate(accepted)
    \/ Disconnect
    \/ \E errorCode \in {ConnectFail, FarmConnectionOk} : ErrorCalled(errorCode)

-----------------------------------------------------------------------------
(* Part XIII : the bar built from the RTVolume ticks of an instrument *)

\* lastTradePrice of an RTVolume tick.
LastTradePrices == {1, 2}

\* lastTradeTime of an RTVolume tick, in seconds.
LastTradeTimes == {0, 2, 5}

NoBar == [dt |-> -1, open |-> 0, high |-> 0, low |-> 0, close |-> 0]

TkFrame ==
    UNCHANGED <<ibVars, ptVars, btVars, cmVars, acVars, lfVars, cnVars, chVars,
                gcVars, oeVars, hdVars, msVars, lcVars>>

\* Connection.subscribeMarketBars: the instrument's buffer starts empty.
InitTK ==
    /\ tkBuffer = << >>
    /\ tkBar = NoBar
    /\ tkWindow = << >>
    /\ tkCall = "init"

\* max([e.lastTradePrice for e in trades])
HighOf(trades) ==
    CHOOSE p \in {trades[i].lastTradePrice : i \in DOMAIN trades} :
        \A i \in DOMAIN trades : trades[i].lastTradePrice <= p

\* min([e.lastTradePrice for e in trades])
LowOf(trades) ==
    CHOOSE p \in {trades[i].lastTradePrice : i \in DOMAIN trades} :
        \A i \in DOMAIN trades : trades[i].lastTradePrice >= p

\* Connection.__emitTicks: the bar built from the buffered trades.
EmitTicks(trades) ==
    [dt |-> trades[1].lastTradeTime,
     open |-> trades[1].lastTradePrice,
     high |-> HighOf(trades),
     low |-> LowOf(trades),
     close |-> trades[1].lastTradePrice]

\* Connection.tickString(tickerId, 48, value) for a subscribed instrument,
\* value holding a last trade price and a last trade time.  TWS reports
\* the trades of an instrument in the order of their times.
RtVolumeTick(lastTradePrice, lastTradeTime) ==
    LET rtVolume == [lastTradePrice |-> lastTradePrice,
                     lastTradeTime |-> lastTradeTime]
        trades == Append(tkBuffer, rtVolume)
    IN  /\ Len(tkBuffer) < MaxTrades
        /\ tkBuffer # << >> =>
              tkBuffer[Len(tkBuffer)].lastTradeTime <= lastTradeTime
        /\ IF EmitsTicks([i \in DOMAIN trades |-> trades[i].lastTradeTime])
           THEN /\ tkBar' = EmitTicks(trades)
                /\ tkWindow' = trades
                /\ tkBuffer' = << >>
                /\ tkCall' = "emitted"
           ELSE /\ tkBuffer' = trades
                /\ tkCall' = "buffered"
                /\ UNCHANGED <<tkBar, tkWindow>>
        /\ TkFrame

\* Connection.tickString(tickerId, 48, value) with an empty last trade
\* price: the tick is ignored.
EmptyPriceTick ==
    /\ tkCall' = "ignored"
    /\ UNCHANGED <<tkBuffer, tkBar, tkWindow>>
    /\ TkFrame

NextTicks ==
    \/ \E lastTradePrice \in LastTradePrices, lastTradeTime \in LastTradeTimes :
          RtVolumeTick(lastTradePrice, lastTradeTime)
    \/ EmptyPriceTick

-----------------------------------------------------------------------------
(* Specifications *)

Init ==
    /\ InitIB /\ InitPT /\ InitBT /\ InitCM /\ InitAC /\ InitLF /\ InitCN
    /\ InitCH /\ InitGC /\ InitOE /\ InitHD /\ InitMS /\ InitLC /\ InitTK

\* The Interactive Brokers broker with its connection.
Next == NextIB /\ UNCHANGED <<ptVars, btVars, moreVars>>

\* The Broker's own operations and the order statuses of TWS.  The calls a
\* strategy can make directly on an Order (setOrderId, setGoodTillCanceled,
\* setLimitPrice, setStopPrice) and on the Connection (cancelOrder) are left
\* out: they change neither the state of an order nor what the Broker has
\* registered.
NextOrderStates ==
    /\ \/ \E kind \in OrderKinds : CreateOrder(kind[1], kind[2], kind[3])
       \/ \E o \in 1 .. MaxOrders : PlaceOrder(o)
       \/ \E o \in 1 .. MaxOrders : CancelOrder(o)
       \/ \E orderId \in TwsOrderIds, status \in TwsStatuses, remaining \in {0, 5} :
             OrderStatus(orderId, status, 12 - remaining, remaining, 25)
    /\ UNCHANGED <<ptVars, btVars, moreVars>>

Spec == Init /\ [][Next]_vars

\* The Interactive Brokers Broker without the direct calls on Order and Connection.
SpecOrderStates == Init /\ [][NextOrderStates]_vars

\* Order id allocation: the broker, direct createOrder calls and nextValidId.
SpecOrderIds == Init /\ [][NextOrderIds]_vars

\* The PositionTracker on its own.
SpecPosTracker == Init /\ [][NextPT]_vars

\* The backtesting broker driven by the bar dispatch loop.
SpecBacktest == Init /\ [][NextBT]_vars

\* The backtesting broker with several orders: the cash over their fills.
SpecCash == Init /\ [][NextCash]_vars

\* FlatRateCommission.calculate over its inputs.
SpecCommission == Init /\ [][NextCM]_vars

\* The account values behind Broker.getCash / setCash.
SpecAccount == Init /\ [][NextAC]_vars

\* The live feed: realtime bars in, bar-sets dispatched.
SpecLiveFeed == Init /\ [][NextLF]_vars

\* The Connection's requests that carry a ticker id.
SpecTickerIds == Init /\ [][NextTickerIds]_vars

\* The Connection's realtime bar streams and their callback.
SpecRealtimeBars == Init /\ [][NextRealtimeBars]_vars

\* The Connection's market data streams and their ticks.
SpecMarketData == Init /\ [][NextMarketData]_vars

\* A BoundedOrderedDict: construction and assignments.
SpecBoundedDict == Init /\ [][NextBoundedDict]_vars

\* An LRUCache: construction, reads, writes and membership tests.
SpecLRUCache == Init /\ [][NextLRUCache]_vars

\* Connection.getCash against the updateAccountValue callbacks.  Both threads
\* keep running: a thread that can take a step takes it, and a thread that
\* asks for the lock again and again while it is free is granted it.
SpecGetCash ==
    /\ Init
    /\ [][NextGetCash]_vars
    /\ WF_vars(GcCheck \/ GcRelease \/ GcReturn)
    /\ SF_vars(GcAcquire)
    /\ WF_vars(CbStore \/ CbRelease)

\* The broker's order-updated event: subscriptions, order-status callbacks and
\* the handler calls they make.
SpecOrderEvents == Init /\ [][NextOrderEvents]_vars

\* requestHistoricalData against the historicalData and error callbacks.
\* The requesting thread keeps running and a callback that has started runs
\* to its end; nothing obliges TWS to send anything.
SpecHistoricalData ==
    /\ Init
    /\ [][NextHistoricalData]_vars
    /\ WF_vars(HdTest \/ HdWait \/ HdTimeout \/ HdInspect \/ HdReissue \/ HdCopy)
    /\ WF_vars(ErrorStoresCode)

\* requestMarketScanner against the scanner callbacks.  The requesting thread
\* keeps running; nothing obliges TWS to send anything.
SpecMarketScanner ==
    /\ Init
    /\ [][NextMarketScanner]_vars
    /\ WF_vars(MsWait \/ MsReturn)

\* The requests of a Connection, TWS refusing or dropping the connection.
SpecConnect == Init /\ [][NextConnect]_vars

\* The RTVolume ticks of one subscribed instrument.
SpecTicks == Init /\ [][NextTicks]_vars

-----------------------------------------------------------------------------
(* Part I : claims *)

\* C1: FILLED and CANCELED are terminal: once a registered order is FILLED or
\* CANCELED, no later order-status update changes its state.
C1_TerminalStatesAreFinal ==
    [][\A o \in DOMAIN ibOrders :
          (ibOrders[o].state \in {"FILLED", "CANCELED"} /\ lastCall'.op = "orderStatus")
              => ibOrders'[o].state = ibOrders[o].state]_vars

\* The fill notifications emitted for order o.
FillEvents(o) ==
    {i \in DOMAIN orderEvents : orderEvents[i].order = o /\ orderEvents[i].state = "FILLED"}

\* C2: execution info is attached exactly once: for any sequence of status
\* messages, setExecuted is called at most once per order and at most one fill
\* notification is emitted for it.
C2_ExecutedAtMostOnce ==
    \A o \in DOMAIN ibOrders :
        /\ setExecutedCalls[o] <= 1
        /\ Cardinality(FillEvents(o)) <= 1

\* C9: cancelOrder on a FILLED order raises, forwards no cancel request to TWS
\* and leaves the order FILLED.
C9_CancelFilledFails ==
    [][\A o \in DOMAIN ibOrders :
          (lastCall'.op = "cancelOrder" /\ lastCall'.order = o /\ ibOrders[o].state = "FILLED")
              => /\ lastCall'.raised
                 /\ twsRequests' = twsRequests
                 /\ ibOrders' = ibOrders]_vars

\* C9 witness: cancelOrder was just called on a submitted order that is FILLED,
\* after at least one request went to TWS.
C9_Witness ==
    /\ lastCall.op = "cancelOrder"
    /\ lastCall.order \in DOMAIN ibOrders
    /\ ibOrders[lastCall.order].state = "FILLED"
    /\ ibOrders[lastCall.order].orderId # NoneId
    /\ lastCall.raised

\* C10: cancelOrder on an order that is already CANCELED is rejected and
\* forwards no cancel request to TWS.
C10_CancelCanceledRejected ==
    [][\A o \in DOMAIN ibOrders :
          (lastCall'.op = "cancelOrder" /\ lastCall'.order = o /\ ibOrders[o].state = "CANCELED")
              => /\ lastCall'.raised
                 /\ twsRequests' = twsRequests]_vars

\* C11: Broker.placeOrder on an order whose state is not ACCEPTED raises
\* before anything is sent to TWS; the order's id, the broker's order table
\* and the connection's order ids stay as they were.
C11_ResubmitRejected ==
    [][\A o \in DOMAIN ibOrders :
          (/\ lastCall'.op = "placeOrder"
           /\ lastCall'.order = o
           /\ ibOrders[o].state # "ACCEPTED")
          => /\ lastCall'.raised
             /\ twsRequests' = twsRequests
             /\ ibOrders' = ibOrders
             /\ brokerOrders' = brokerOrders
             /\ connOrderId' = connOrderId
             /\ connOrderIds' = connOrderIds]_vars

\* C11 witness: placeOrder was called on an order that had been placed and
\* then filled, and it raised.
C11_Witness ==
    /\ lastCall.op = "placeOrder"
    /\ lastCall.raised
    /\ lastCall.order \in DOMAIN ibOrders
    /\ ibOrders[lastCall.order].state = "FILLED"
    /\ ibOrders[lastCall.order].orderId # NoneId

\* The indices of the placeOrder requests sent to TWS.
PlaceRequests == {i \in DOMAIN twsRequests : twsRequests[i].req = "placeOrder"}

\* C16: no order id is passed to the TWS placeOrder request twice, and the
\* ids allocated by the connection are strictly increasing.
C16_OrderIdsUnique ==
    /\ \A i, j \in PlaceRequests :
          i # j => twsRequests[i].orderId # twsRequests[j].orderId
    /\ \A i, j \in PlaceRequests :
          (i < j /\ twsRequests[i].allocated /\ twsRequests[j].allocated)
              => twsRequests[i].orderId < twsRequests[j].orderId

\* The request placeOrder has to send for the order, field by field.
ExpectedPlaceRequest(order, request) ==
    /\ request.req = "placeOrder"
    /\ request.symbol = order.instrument
    /\ request.orderType = (CASE order.type = "MARKET" -> "MKT"
                              [] order.type = "LIMIT" -> "LMT"
                              [] order.type = "STOP" -> "STP"
                              [] order.type = "STOP_LIMIT" -> "STP LMT")
    /\ request.lmtPrice = (IF order.type \in {"LIMIT", "STOP_LIMIT"}
                           THEN order.limitPrice ELSE 0)
    /\ request.auxPrice = (IF order.type \in {"STOP", "STOP_LIMIT"}
                           THEN order.stopPrice ELSE 0)
    /\ request.tif = (IF order.goodTillCanceled THEN "GTC" ELSE "DAY")
    /\ request.totalQuantity = order.quantity
    /\ request.minQuantity = 0

\* C21: Broker.placeOrder forwards every order (in state ACCEPTED) to TWS
\* with the order type, lmtPrice, auxPrice, tif, totalQuantity and minQty
\* determined by its type and time in force; the returned id is stored on
\* the order and the order is registered under it.
C21_PlaceOrderForwards ==
    [][\A o \in DOMAIN ibOrders :
          (/\ lastCall'.op = "placeOrder"
           /\ lastCall'.order = o
           /\ ibOrders[o].state = "ACCEPTED")
          => /\ ~lastCall'.raised
             /\ Len(twsRequests') = Len(twsRequests) + 1
             /\ ExpectedPlaceRequest(ibOrders[o], twsRequests'[Len(twsRequests')])
             /\ ibOrders'[o].orderId = twsRequests'[Len(twsRequests')].orderId
             /\ twsRequests'[Len(twsRequests')].orderId \in DOMAIN brokerOrders'
             /\ brokerOrders'[twsRequests'[Len(twsRequests')].orderId] = o]_vars

\* C28: an order-status update whose order id is not registered with the
\* Broker changes the state of no order, leaves the broker's order table
\* unchanged and emits no order-updated event.
C28_UnregisteredIgnored ==
    [][\/ UNCHANGED <<ibOrders, brokerOrders, orderEvents, setExecutedCalls>>
       \/ \A orderId \in TwsOrderIds, status \in TwsStatuses, remaining \in {0, 5} :
             ~(/\ orderId \notin DOMAIN brokerOrders
               /\ OrderStatus(orderId, status, 12 - remaining, remaining, 25))]_vars

\* C28 witness: a status update naming an id that is not registered arrived
\* while another order is registered and still ACCEPTED.
C28_Witness ==
    /\ lastCall.op = "orderStatus"
    /\ lastCall.order = NoOrder
    /\ \E k \in DOMAIN brokerOrders : ibOrders[brokerOrders[k]].state = "ACCEPTED"

\* C29: a registered order becomes FILLED only through a 'Filled' status
\* with remaining = 0; a 'Filled' status with remaining > 0 and every status
\* other than 'Cancelled' and 'Filled' leaves the orders and their execution
\* info unchanged and emits no order-updated event.
C29_AllOrNothing ==
    [][/\ \A o \in DOMAIN ibOrders :
             (ibOrders[o].state # "FILLED" /\ ibOrders'[o].state = "FILLED")
             => \E orderId \in DOMAIN brokerOrders :
                   /\ brokerOrders[orderId] = o
                   /\ OrderStatus(orderId, "Filled", 12, 0, 25)
       /\ \/ UNCHANGED <<ibOrders, orderEvents, setExecutedCalls>>
          \/ \A orderId \in TwsOrderIds, status \in TwsStatuses, remaining \in {0, 5} :
                ~(/\ status # "Cancelled"
                  /\ ~(status = "Filled" /\ remaining = 0)
                  /\ OrderStatus(orderId, status, 12 - remaining, remaining, 25))]_vars

\* C29 witness: status updates for a registered order were delivered after
\* it was placed, and it is still ACCEPTED with nothing emitted.
C29_Witness ==
    /\ lastCall.op = "orderStatus"
    /\ lastCall.order \in DOMAIN ibOrders
    /\ ibOrders[lastCall.order].state = "ACCEPTED"
    /\ ibOrders[lastCall.order].executionInfo = NoExecutionInfo
    /\ orderEvents = << >>

\* The cancel requests sent to TWS for the order.
CancelRequests(o) ==
    {k \in DOMAIN twsRequests :
        twsRequests[k].req = "cancelOrder" /\ twsRequests[k].orderId = ibOrders[o].orderId}

\* C30: once cancelOrder has returned for a submitted, unfilled order, the
\* order is no longer active and never reaches FILLED.
C30_CancelIsImmediate ==
    \A o \in DOMAIN ibOrders :
        CancelRequests(o) # {} => ibOrders[o].state = "CANCELED"

-----------------------------------------------------------------------------
(* Part II : claims *)

\* The tracker was fresh, then buy(q, p) and sell(q, p) were called with zero
\* commission, and nothing since.
IsRoundTrip(q, p) ==
    /\ Len(ptLog) >= 2
    /\ LET b == ptLog[Len(ptLog) - 1]
           s == ptLog[Len(ptLog)]
       IN  /\ b.fresh
           /\ b.op = "buy" /\ b.quantity = q /\ b.price = p /\ b.commission = 0
           /\ s.op = "sell" /\ s.quantity = q /\ s.price = p /\ s.commission = 0

\* C8: PositionTracker round-trip: buy(q, p) then sell(q, p) with zero
\* commission gives getNetProfit(x) = 0 and getReturn(x) = 0 for every
\* evaluation price x, with getCost() = q*p.
C8_RoundTrip ==
    \A q \in TradeQuantities, p \in TradePrices :
        IsRoundTrip(q, p) =>
            /\ getCost(posTracker) = q * p
            /\ \A x \in EvalPrices, ic \in BOOLEAN :
                  /\ getNetProfit(posTracker, x, ic) = 0
                  /\ getReturn(posTracker, x, ic)[1] = 0

\* C8 witness: a round trip of 11 shares at 13 has just completed.
C8_Witness == IsRoundTrip(11, 13)

-----------------------------------------------------------------------------
(* Part III : claims *)

IsActive(o) == \E i \in DOMAIN btActive : btActive[i] = o

\* Order o is filled by this step.
FilledNow(o) ==
    /\ o \in DOMAIN btOrders
    /\ btOrders[o].state = "ACCEPTED"
    /\ btOrders'[o].state = "FILLED"

\* Every active market order of the given set is filled by the matching pass
\* of the Bars that follow its submission, at the price given by `price`.
MarketOrdersFill(orders, price(_, _)) ==
    \A o \in orders :
        /\ (btPhase = "broker" /\ IsActive(o)) => btOrders'[o].state = "FILLED"
        /\ FilledNow(o) =>
              /\ btPhase = "broker"
              /\ btBarNo = btOrders[o].submittedAt + 1
              /\ btOrders'[o].executionInfo[1].dateTime = btBarNo
              /\ btOrders'[o].executionInfo[1].price = price(btOrders[o], btBars[1])

MarketBuySellOrders ==
    {o \in DOMAIN btOrders :
        btOrders[o].type = "MARKET" /\ btOrders[o].action \in {"BUY", "SELL"}}

OpenOf(order, bar) == getBarOpen(bar, btConfig.useAdjusted)

OpenOrCloseOf(order, bar) ==
    IF order.onClose THEN getBarClose(bar, btConfig.useAdjusted)
    ELSE getBarOpen(bar, btConfig.useAdjusted)

\* C3 (as claimed): every market BUY or SELL order submitted during bar N is
\* filled while bar N+1 is processed, at the (adjusted) open of bar N+1, and
\* never during bar N.
C3_MarketFillsAtNextOpen ==
    [][MarketOrdersFill(MarketBuySellOrders, OpenOf)]_vars

\* C3 (amended): every market BUY or SELL order submitted during bar N is
\* filled while bar N+1 is processed, never during bar N; the fill price is
\* the (adjusted) open of bar N+1, or its (adjusted) close when the order was
\* created with onClose.
C3_MarketFillsAtNextBar ==
    [][MarketOrdersFill(MarketBuySellOrders, OpenOrCloseOf)]_vars

\* C3 witness: in adjusted mode, a market order placed in the handler of bar
\* N >= 1 has just been filled by the matching pass of bar N+1 at the adjusted
\* open, which differs from the raw open.
C3_Witness ==
    /\ btPhase = "strategy"
    /\ btConfig.useAdjusted
    /\ \E o \in MarketBuySellOrders :
          /\ btOrders[o].state = "FILLED"
          /\ ~btOrders[o].onClose
          /\ btOrders[o].submittedAt >= 1
          /\ btOrders[o].executionInfo[1].dateTime = btBarNo
          /\ btOrders[o].executionInfo[1].price # btBars[1].open

\* C4: in every dispatch step the matching pass for the new Bars, with its
\* notifications, completes before the strategy's bar handler is invoked with
\* the same Bars: fills are notified from the matching pass only, for Bars
\* later than those during which the order was placed, and when the handler
\* runs every order placed in an earlier step has been matched against the
\* current Bars.
C4_MatchingBeforeHandler ==
    /\ \A i \in DOMAIN btEvents :
          btEvents[i].state = "FILLED" =>
              /\ btEvents[i].phase = "broker"
              /\ btEvents[i].barNo > btOrders[btEvents[i].order].submittedAt
    /\ btPhase = "strategy" =>
          \A o \in DOMAIN btOrders :
              (btOrders[o].state = "ACCEPTED" /\ btOrders[o].submittedAt < btBarNo)
                  => btOrders[o].matchedAt = btBarNo

\* C4 witness: the handler of bar 2 runs and the fill of the order placed in
\* the handler of bar 1 has been notified for bar 2.
C4_Witness ==
    /\ btPhase = "strategy"
    /\ btBarNo = 2
    /\ \E i \in DOMAIN btEvents :
          /\ btEvents[i].state = "FILLED"
          /\ btEvents[i].barNo = 2
          /\ btOrders[btEvents[i].order].submittedAt = 1

\* C5: a BUY LIMIT order with limit price L matched against a bar fills in
\* that bar if and only if low <= L, at min(L, open); when low > L it is left
\* unfilled for that bar.
C5_BuyLimitFill ==
    [][\A o \in DOMAIN btOrders :
          (/\ btPhase = "broker"
           /\ IsActive(o)
           /\ btOrders[o].type = "LIMIT"
           /\ btOrders[o].action = "BUY")
          => LET bar == btBars[1]
                 L == btOrders[o].limitPrice
             IN  /\ btOrders'[o].matchedAt = btBarNo
                 /\ (btOrders'[o].state = "FILLED") <=> (bar.low <= L)
                 /\ bar.low <= L =>
                       /\ btOrders'[o].executionInfo[1].price = Min2(L, bar.open)
                       /\ btOrders'[o].executionInfo[1].dateTime = btBarNo
                 /\ bar.low > L => btOrders'[o].executionInfo = NoExecutionInfo]_vars

\* C5 witness: a BUY LIMIT order was filled below its limit price, at the
\* more favourable open.
C5_Witness ==
    \E o \in DOMAIN btOrders :
        /\ btOrders[o].type = "LIMIT"
        /\ btOrders[o].action = "BUY"
        /\ btOrders[o].state = "FILLED"
        /\ btOrders[o].executionInfo[1].price < btOrders[o].limitPrice

\* C6: an order that is not good-till-canceled and is unfilled at the end of
\* its bar is CANCELED before the next bar is considered; a good-till-canceled
\* order stays ACCEPTED until it is filled or explicitly canceled.
C6_DayOrderExpiry ==
    /\ [](\A o \in DOMAIN btOrders :
            (~btOrders[o].goodTillCanceled /\ btOrders[o].matchedAt >= 1)
                => /\ btOrders[o].state \in {"FILLED", "CANCELED"}
                   /\ btOrders[o].matchedAt = btOrders[o].submittedAt + 1)
    /\ [][\A o \in DOMAIN btOrders :
            (/\ btOrders[o].goodTillCanceled
             /\ btOrders[o].state = "ACCEPTED"
             /\ btOrders'[o].state # "ACCEPTED")
            => \/ btOrders'[o].state = "FILLED"
               \/ (btOrders'[o].state = "CANCELED" /\ btPhase # "broker")]_vars

\* C6 witness: a good-till-canceled order is still ACCEPTED after two bars
\* that did not fill it.
C6_Witness ==
    \E o \in DOMAIN btOrders :
        /\ btOrders[o].goodTillCanceled
        /\ btOrders[o].state = "ACCEPTED"
        /\ btOrders[o].matchedAt >= btOrders[o].submittedAt + 2

\* price*quantity summed over the filled orders on the buy side (buySide =
\* TRUE) or on the sell side.
RECURSIVE FilledNotional(_, _, _)
FilledNotional(orders, n, buySide) ==
    IF n = 0 THEN 0
    ELSE FilledNotional(orders, n - 1, buySide) +
         (IF orders[n].state = "FILLED" /\ IsBuySide(orders[n].action) = buySide
          THEN orders[n].executionInfo[1].price * orders[n].executionInfo[1].quantity
          ELSE 0)

\* C7: cash conservation: after any sequence of fills with zero commission
\* the cash equals the initial cash minus the notional of the buy fills plus
\* the notional of the sell fills, and cash changes only when an order is
\* filled.
C7_CashConservation ==
    /\ [](btConfig.commission = 0 =>
            btCash = InitialCash
                     - FilledNotional(btOrders, Len(btOrders), TRUE)
                     + FilledNotional(btOrders, Len(btOrders), FALSE))
    /\ [][btCash' # btCash => \E o \in DOMAIN btOrders : FilledNow(o)]_vars

\* C7 witness: with zero commission a buy was filled and then, by a later
\* bar, a sell for more than the buy had cost: two fills, and the cash is
\* the initial cash less the one notional plus the other.
C7_Witness ==
    /\ btConfig.commission = 0
    /\ \E b, s \in DOMAIN btOrders :
          /\ btOrders[b].state = "FILLED" /\ IsBuySide(btOrders[b].action)
          /\ btOrders[s].state = "FILLED" /\ ~IsBuySide(btOrders[s].action)
          /\ btOrders[b].executionInfo[1].dateTime < btOrders[s].executionInfo[1].dateTime
          /\ btCash = InitialCash
                - btOrders[b].executionInfo[1].price * btOrders[b].executionInfo[1].quantity
                + btOrders[s].executionInfo[1].price * btOrders[s].executionInfo[1].quantity
          /\ btCash > InitialCash

-----------------------------------------------------------------------------
(* Part IV : claims *)

\* C12: setCash(c) on the Interactive Brokers Broker raises for every c, and
\* getCash() returns the same account value after the attempt as before it.
C12_SetCashRejected ==
    [][accountCall'.op = "setCash" =>
          /\ accountCall'.raised
          /\ HasCash(accountValues')
          /\ getCash(accountValues') = getCash(accountValues)]_vars

\* C12 witness: setCash(420.00) was attempted and raised while the account's
\* cash is the 28989.07 of the test.
C12_Witness ==
    /\ accountCall.op = "setCash"
    /\ accountCall.arg = 42000
    /\ accountCall.raised
    /\ getCash(accountValues) = 2898907

\* The tiered per-share rate of the claim, in 1/100000 dollar.
TieredRate(quantity) ==
    IF quantity <= 500 THEN 1300 * quantity
    ELSE 1300 * 500 + 800 * (quantity - 500)

\* C13: calculate(order, price, quantity) = min(0.005*price*quantity,
\* max(1.30, rate)) with the tiered rate; price 25 with quantity 100 gives
\* 1.30 and with quantity 700 gives 8.10.
C13_FlatRateFormula ==
    commissionCall.called =>
        LET price == commissionCall.price
            quantity == commissionCall.quantity
        IN  /\ commissionCall.result =
                  Min2(500 * price * quantity, Max2(130000, TieredRate(quantity)))
            /\ (price = 25 /\ quantity = 100) => commissionCall.result = 130000
            /\ (price = 25 /\ quantity = 700) => commissionCall.result = 810000

\* C13 witness: the 700 share case of the test, 8.10.
C13_Witness ==
    /\ commissionCall.called
    /\ commissionCall.price = 25
    /\ commissionCall.quantity = 700
    /\ commissionCall.result = 810000

\* C14 (as claimed): for every price > 0 and quantity > 0 the commission is
\* at least the 1.30 minimum per order.
C14_AbsoluteFloor ==
    (commissionCall.called /\ commissionCall.price > 0 /\ commissionCall.quantity > 0)
        => commissionCall.result >= 130000

\* C14 (amended): for every price > 0 and quantity > 0 the commission is at
\* least the 1.30 minimum whenever 0.5% of the trade value is at least 1.30;
\* otherwise it is exactly 0.5% of the trade value, which is positive and
\* below 1.30.
C14_FloorUnlessCeiling ==
    (commissionCall.called /\ commissionCall.price > 0 /\ commissionCall.quantity > 0)
        => LET ceiling == 500 * commissionCall.price * commissionCall.quantity
           IN  /\ ceiling >= 130000 => commissionCall.result >= 130000
               /\ ceiling < 130000 =>
                     /\ commissionCall.result = ceiling
                     /\ commissionCall.result > 0

\* C14 witness: the floor applies: the tiered rate is below 1.30, 0.5% of the
\* trade value is not, and the commission is 1.30.
C14_Witness ==
    /\ commissionCall.called
    /\ TieredRate(commissionCall.quantity) < 130000
    /\ 500 * commissionCall.price * commissionCall.quantity >= 130000
    /\ commissionCall.result = 130000

-----------------------------------------------------------------------------
(* Part V : claims *)

C24_SeriesUpdatedBeforeEmit ==
    [][(feedQueue # << >> /\ feedQueue' = Tail(feedQueue)) =>
          LET bars == Head(feedQueue)
              dateTime == BarsDateTime(bars)
              inOrder == \/ feedEmitted = << >>
                         \/ feedEmitted[Len(feedEmitted)] < dateTime
          IN  inOrder => /\ feedResult' = "emitted"
                         /\ DOMAIN feedHandlerSaw' = DOMAIN bars
                         /\ \A i \in DOMAIN bars : feedHandlerSaw'[i] = dateTime]_vars

\* The dateTimes of the bars of a bar-set.
DateTimesOf(barDict) == {barDict[i] : i \in DOMAIN barDict}

\* C25: every bar-set that onRealtimeBar puts on the queue contains only
\* bars with one identical dateTime, whatever the order of the arrivals.
C25_QueuedBarsShareDateTime ==
    \A k \in DOMAIN feedQueue : Cardinality(DateTimesOf(feedQueue[k])) = 1

\* C25 witness: a bar-set with the bars of two instruments is on the queue,
\* and the bars that arrived after it have an earlier dateTime.
C25_Witness ==
    /\ feedQueue # << >>
    /\ Cardinality(DOMAIN feedQueue[Len(feedQueue)]) = 2
    /\ feedCurrentDatetime < BarsDateTime(feedQueue[Len(feedQueue)])

-----------------------------------------------------------------------------
(* Part VII : claims *)

\* C26: a BoundedOrderedDict of size > 0 never holds more than size entries,
\* after construction and after every __setitem__; inserting a new key into
\* a full map evicts exactly the entry inserted earliest; assigning to a key
\* already present evicts nothing and leaves the order of the keys as it
\* was; with size 0 nothing is ever evicted.
C26_BoundedEviction ==
    /\ [](bodSize > 0 => Len(bodData) <= bodSize)
    /\ [][\A key \in CacheKeys, value \in CacheValues :
            BodSetItem(key, value) =>
               IF HasKey(bodData, key)
               THEN /\ Keys(bodData') = Keys(bodData)
                    /\ \A i \in DOMAIN bodData :
                          bodData'[i].value =
                             IF bodData[i].key = key THEN value ELSE bodData[i].value
               ELSE IF bodSize > 0 /\ Len(bodData) = bodSize
               THEN bodData' = Append(Tail(bodData), Entry(key, value))
               ELSE bodData' = Append(bodData, Entry(key, value))]_vars

\* C26 witness: an assignment of a new key to a full map of size 2 has just
\* evicted an entry.
C26_Witness ==
    /\ bodCall.op = "setitem"
    /\ bodCall.evicted
    /\ bodSize = 2
    /\ Len(bodData) = 2

\* The cached keys, from least to most recently read or written.
CachedByUse == SelectSeq(lruUsed, LAMBDA k : HasKey(lruData, k))

\* C27: an LRUCache of size > 0 keeps at most size entries; keys() lists the
\* cached keys from least to most recently read or written and lru() returns
\* the first of them; a __setitem__ of a new key into a full cache removes
\* exactly that first key; a membership test changes nothing.
C27_LeastRecentlyUsedEvicted ==
    /\ [](/\ lruSize > 0 => Len(lruData) <= lruSize
          /\ keys(lruData) = CachedByUse
          /\ lru(lruData) = IF CachedByUse = << >> THEN << >>
                            ELSE <<Entry(CachedByUse[1], ValueOf(lruData, CachedByUse[1]))>>)
    /\ [][/\ \A key \in CacheKeys, value \in CacheValues :
                (/\ LruSetItem(key, value)
                 /\ ~HasKey(lruData, key)
                 /\ lruSize > 0
                 /\ Len(lruData) = lruSize)
                => keys(lruData') = Append(Tail(CachedByUse), key)
          /\ \A key \in CacheKeys : LruContains(key) => lruData' = lruData]_vars

\* C27 witness: a write of the new key c into a full cache of size 2 evicted
\* b, the least recently used key, and kept a.
C27_Witness ==
    /\ lruCall = LruCall("setitem", "evicted")
    /\ lruSize = 2
    /\ keys(lruData) = <<"a", "c">>
    /\ lruUsed = <<"b", "a", "c">>
    /\ lruData[1].value = 1 /\ lruData[2].value = 1

-----------------------------------------------------------------------------
(* Part VIII : claims *)

\* A call of Connection.getCash is in progress.
GetCashInProgress == gcPc # "idle"

\* C23, as stated: Connection.getCash never returns before a TotalCashBalance
\* of the account code and the currency has been received, the value it
\* returns is the most recently received one at the moment it returns, and
\* it eventually returns once such a value has been delivered.
C23_ReturnsMostRecentlyReceived ==
    /\ [][GcReturn => /\ HasCash(accountValues)
                      /\ accountCall'.result = getCash(accountValues)]_vars
    /\ (GetCashInProgress /\ HasCash(accountValues)) ~> ~GetCashInProgress

\* C23, amended: Connection.getCash never returns before a TotalCashBalance
\* of the account code and the currency has been received; the value it
\* returns is the one that was the most recently received when getCash read
\* it under the lock (a value received after the lock was released is not
\* returned); and once such a value has been delivered getCash eventually
\* returns, under every interleaving with the updateAccountValue callbacks.
C23_GetCashReturnsValueRead ==
    /\ [](gcPc = "read" =>
              /\ HasCash(accountValues)
              /\ accLock = "caller"
              /\ gcCash = getCash(accountValues))
    /\ [][(gcPc = "read" \/ gcPc = "released") => gcCash' = gcCash]_vars
    /\ [][GcReturn => /\ HasCash(accountValues)
                      /\ gcCash # NoCash
                      /\ accountCall'.result = gcCash]_vars
    /\ (GetCashInProgress /\ HasCash(accountValues)) ~> ~GetCashInProgress

\* getCash has returned 420.00, a value that the only updateAccountValue call
\* made so far delivered.
C23_Witness ==
    /\ gcPc = "idle"
    /\ accountCall.op = "Connection.getCash"
    /\ accountCall.result = 42000
    /\ gcUpdates = 1
    /\ accountValues[CashKey] = "420"

-----------------------------------------------------------------------------
(* Part IX : claims *)

IsPrefix(s, t) == Len(s) <= Len(t) /\ s = SubSeq(t, 1, Len(s))

\* C22: the handlers of the broker's order-updated event are called
\* synchronously and in subscription order.  Every order-status update that
\* changes a registered order starts a delivery to the handlers subscribed at
\* that moment; a delivery calls them in the order they were subscribed, each
\* once; when the callback that delivered the update returns every one of them
\* has been called; and a delivery starts only after the one before it has
\* returned.
C22_SynchronousInSubscriptionOrder ==
    /\ [](\A i \in DOMAIN oeLog :
             /\ IsPrefix(oeLog[i].called, oeLog[i].subscribed)
             /\ oeLog[i].returned => oeLog[i].called = oeLog[i].subscribed
             /\ i < Len(oeLog) => oeLog[i].returned)
    /\ [][\A o \in DOMAIN ibOrders :
             (/\ lastCall'.op = "orderStatus"
              /\ ibOrders'[o] # ibOrders[o])
             => /\ Len(oeLog') = Len(oeLog) + 1
                /\ oeLog'[Len(oeLog')].order = o
                /\ oeLog'[Len(oeLog')].state = ibOrders'[o].state
                /\ oeLog'[Len(oeLog')].subscribed = oeHandlers
                /\ oeLog'[Len(oeLog')].called = << >>]_vars

\* A status update has been delivered to h2 and then to h1, the order in which
\* they were subscribed, and the callback has returned.
C22_Witness ==
    /\ oeLog # << >>
    /\ oeLog[1].returned
    /\ oeLog[1].subscribed = <<"h2", "h1">>
    /\ oeLog[1].called = <<"h2", "h1">>
    /\ ibOrders[oeLog[1].order].state = oeLog[1].state

-----------------------------------------------------------------------------
(* Part I : claims on placeOrder's order actions *)

\* The side the claim expects for an order action.
ExpectedSide(act) == IF act \in {"BUY", "BUY_TO_COVER"} THEN "BUY" ELSE "SELL"

\* C31: Broker.placeOrder is total over the order actions: for an ACCEPTED
\* order of any action it does not raise, it forwards one order to TWS whose
\* side is 'BUY' for BUY and BUY_TO_COVER and 'SELL' for SELL and SELL_SHORT,
\* and it gives the order an id.
C31_PlaceOrderTotal ==
    [][\A o \in DOMAIN ibOrders :
          (/\ lastCall'.op = "placeOrder"
           /\ lastCall'.order = o
           /\ ibOrders[o].state = "ACCEPTED")
          => /\ ~lastCall'.raised
             /\ Len(twsRequests') = Len(twsRequests) + 1
             /\ twsRequests'[Len(twsRequests')].action = ExpectedSide(ibOrders[o].action)
             /\ ibOrders'[o].orderId # NoneId]_vars

-----------------------------------------------------------------------------
(* Part X : claims *)

\* requestHistoricalData returns with this step.
HistoricalDataReturnsHere == hdPc # "idle" /\ hdPc' = "idle"

\* C32: requestHistoricalData returns a list only after the 'finished' marker
\* has been received, and the list holds exactly the bars the historicalData
\* callbacks delivered since the request was issued, in arrival order: no bar
\* of an earlier request is left in it.
C32_ReturnsBarsOfTheRequest ==
    [][(HistoricalDataReturnsHere /\ hdCall'.result = "list")
       => /\ hdReceived
          /\ twsAnswer = "done"
          /\ hdCall'.data = hdDelivered]_vars

\* The second request of the Connection has returned the two bars delivered
\* for it, in the order of their arrival.
C32_Witness ==
    /\ hdPc = "idle"
    /\ hdTicker = 1
    /\ hdCall.result = "list"
    /\ hdCall.data = <<2, 1>>
    /\ hdDelivered = <<2, 1>>

\* C33: when TWS has reported an error other than a pacing violation for the
\* ticker id of the pending request, requestHistoricalData eventually returns
\* None, whatever other messages the reader thread delivers before the
\* requester inspects the error slot.
C33_ErrorEndsRequest ==
    (hdPc # "idle" /\ hdReported = NoSecurityDefinition)
        ~> (hdPc = "idle" /\ hdCall.result = "None")

\* The requests sent so far carry these ticker ids.
RequestedTickerIds == {tickerRequests[i].tickerId : i \in DOMAIN tickerRequests}

\* C34: when TWS has reported a pacing violation for the ticker id of the
\* pending request, the requester does not give up: the next time it inspects
\* the error slot it starts its 30 second sleep, after which it sends the
\* same request again under a ticker id not used before, goes on waiting, and
\* matches later errors against the new id.
C34_PacingViolationReissues ==
    [][/\ (hdPc = "woken" /\ hdPc' # "woken" /\ hdReported = PacingViolation)
          => hdPc' = "sleep"
       /\ (hdPc = "sleep" /\ hdPc' # "sleep")
          => /\ hdPc' # "idle"
             /\ Len(tickerRequests') = Len(tickerRequests) + 1
             /\ tickerRequests'[Len(tickerRequests')].req = "reqHistoricalData"
             /\ tickerRequests'[Len(tickerRequests')].instrument = hdInstrument
             /\ tickerRequests'[Len(tickerRequests')].tickerId \notin RequestedTickerIds
             /\ hdTicker' = tickerRequests'[Len(tickerRequests')].tickerId]_vars

\* C35: requestHistoricalData terminates when the data arrives: once the
\* 'finished' marker has been delivered for the request in progress, the
\* request returns the bars delivered, and does not return None, under every
\* interleaving; a notification that came before the requester waited is made
\* up for by the timeout of the wait.
C35_ReturnsWhenFinished ==
    /\ [][(HistoricalDataReturnsHere /\ hdReceived)
          => (hdCall'.result = "list" /\ hdCall'.data = hdDelivered)]_vars
    /\ (hdPc # "idle" /\ hdReceived) ~> (hdPc = "idle" /\ hdCall.result = "list")

\* The marker was delivered, and its notification made, after the requester
\* tested the flag and before it waited: it now waits although the data is
\* complete.
C35_Witness ==
    /\ hdPc = "waiting"
    /\ hdReceived
    /\ twsAnswer = "done"
    /\ hdDelivered # << >>

-----------------------------------------------------------------------------
(* Part XI : claims *)

\* C36: requestMarketScanner terminates when the scan completes: once TWS has
\* delivered the rows and scannerDataEnd, the request in progress eventually
\* returns, under every interleaving, and what it returns is exactly the rows
\* delivered for it, the buffer being empty afterwards.
C36_ScannerReturnsWhenEnded ==
    /\ [][(msPc = "woken" /\ msPc' = "idle")
          => (msCall' = <<msRows>> /\ msBuffer' = << >>)]_vars
    /\ (msPc # "idle" /\ twsScan = "ended") ~> (msPc = "idle")

-----------------------------------------------------------------------------
(* Part V : claims on the LiveFeed's queue and on stopping it *)

\* C37 : once stop() has been called, fetchNextBars returns None and the
\* dispatch that received it leaves the feed, and with it the broker,
\* reporting that dispatching is over, so that a loop
\* "while not stopDispatching(): dispatch()" ends.
C37_StopEndsDispatchLoop ==
    feedResult = "stopDispatching" =>
        /\ ~feedRunning
        /\ StopDispatching
        /\ BrokerStopDispatching

\* The group the i-th received bar belongs to: a group ends where the next
\* bar received has another dateTime.
GroupOf(received, i) ==
    1 + Cardinality({j \in 1..(i - 1) : received[j][2] # received[j + 1][2]})

\* The bars received, grouped: one bar-set per group, holding for each
\* instrument seen in the group the group's dateTime.
GroupsOf(received) ==
    [k \in 1..(IF received = << >> THEN 0 ELSE GroupOf(received, Len(received))) |->
        LET members == {i \in 1..Len(received) : GroupOf(received, i) = k}
        IN  [instrument \in {received[i][1] : i \in members} |->
                received[CHOOSE i \in members : TRUE][2]]]

\* The bar-sets the feed has formed: those it queued, then the pending one.
FeedGroups ==
    IF DOMAIN feedCurrentBars = {} THEN feedQueued
    ELSE Append(feedQueued, feedCurrentBars)

\* C38 : the LiveFeed groups the realtime bars by dateTime without losing
\* any.  The bar-sets queued so far followed by the pending group are the
\* groups of the bars received (a group is closed, and queued as one
\* bar-set, exactly when a bar with another dateTime arrives, and that bar
\* starts the next group); the pending group is not in the queue; and the
\* bar-sets leave the queue in the order they were queued.
C38_GroupsBarsByDateTime ==
    /\ FeedGroups = GroupsOf(feedReceived)
    /\ feedReceived # << >> =>
          /\ Len(feedQueued) = GroupOf(feedReceived, Len(feedReceived)) - 1
          /\ feedCurrentBars[feedReceived[Len(feedReceived)][1]]
                = feedReceived[Len(feedReceived)][2]
    /\ feedQueued = feedFetched \o feedQueue

\* A bar-set with two instruments, one of whose bars replaced an earlier
\* bar of its instrument, was queued and fetched, and the bar that closed it
\* is pending.
C38_Witness ==
    /\ Len(feedQueued) = 1
    /\ Cardinality(DOMAIN feedQueued[1]) = 2
    /\ \E i, j \in 1..Len(feedReceived) :
          /\ i < j
          /\ GroupOf(feedReceived, i) = 1
          /\ GroupOf(feedReceived, j) = 1
          /\ feedReceived[i][1] = feedReceived[j][1]
    /\ feedFetched = feedQueued
    /\ feedQueue = << >>
    /\ DOMAIN feedCurrentBars # {}

-----------------------------------------------------------------------------
(* Part XII : claims *)

ConnectionEvents == {"eConnect", "eDisconnect", "error502"}

\* C39 : the Connection connects lazily and at most once.  Every message
\* sent to TWS comes after an eConnect; between two eConnects the
\* connection was marked disconnected, by error 502 or by disconnect();
\* after error 502 the connection is marked disconnected and the next call
\* on the socket is eConnect; reqAccountUpdates is sent at most once.
C39_ConnectsLazilyOnce ==
    /\ \A i \in DOMAIN lcWire :
          lcWire[i] \notin {"eConnect", "error502"}
              => \E j \in 1..(i - 1) : lcWire[j] = "eConnect"
    /\ \A i, j \in DOMAIN lcWire :
          (i < j /\ lcWire[i] = "eConnect" /\ lcWire[j] = "eConnect")
              => \E k \in (i + 1)..(j - 1) :
                    lcWire[k] \in {"eDisconnect", "error502"}
    /\ \A i \in DOMAIN lcWire :
          lcWire[i] = "error502" =>
              IF i = Len(lcWire) THEN ~lcConnected
              ELSE lcWire[i + 1] \in {"eConnect", "error502"}
    /\ lcConnected =>
          \E i \in DOMAIN lcWire :
              /\ lcWire[i] = "eConnect"
              /\ \A k \in (i + 1)..Len(lcWire) : lcWire[k] \notin ConnectionEvents
    /\ Cardinality({i \in DOMAIN lcWire : lcWire[i] = "reqAccountUpdates"}) <= 1

-----------------------------------------------------------------------------
(* Part XIII : claims *)

\* C40 : a bar is emitted only when more than two trades are buffered and
\* the first and the last are at least the emit frequency apart; its open
\* is the price of the first buffered trade, its close the price of the
\* last, its high and low the greatest and the least buffered price, so
\* that low <= min(open, close) <= max(open, close) <= high; and the
\* buffer is empty after the emission.
C40_BarSummarisesWindow ==
    /\ tkCall = "emitted" => tkBuffer = << >>
    /\ tkBar # NoBar =>
          LET n == Len(tkWindow)
          IN  /\ n > 2
              /\ tkWindow[n].lastTradeTime - tkWindow[1].lastTradeTime
                    >= MarketDataEmitFrequency
              /\ tkBar.open = tkWindow[1].lastTradePrice
              /\ tkBar.close = tkWindow[n].lastTradePrice
              /\ \A i \in 1..n : /\ tkWindow[i].lastTradePrice <= tkBar.high
                                 /\ tkWindow[i].lastTradePrice >= tkBar.low
              /\ \E i \in 1..n : tkWindow[i].lastTradePrice = tkBar.high
              /\ \E i \in 1..n : tkWindow[i].lastTradePrice = tkBar.low
              /\ tkBar.low <= Min2(tkBar.open, tkBar.close)
              /\ Max2(tkBar.open, tkBar.close) <= tkBar.high

=============================================================================
